---- MODULE Spec2Model ----
(***************************************************************************)
(* Model of the static-analysis engine of the Cursor DevOps Toolkit:       *)
(* the four analyzers (src/analyzers/*.py) and the review orchestrator     *)
(* review_pr (src/main.py), and of the calls the toolkit makes on the      *)
(* Linear and GitHub clients (src/integrations/*.py).                      *)
(*                                                                         *)
(* Source text is modelled as sequences of tokens.  A line is a sequence   *)
(* of tokens, a file is a sequence of lines.  Every rule of an analyzer is *)
(* an operator over these sequences, written after the regular expression *)
(* or substring test the Python code applies to the text.                  *)
(***************************************************************************)
EXTENDS Integers, Sequences, FiniteSets, TLC

VARIABLES
    scans,    \* per analyzer and file of the working tree: what the analyzer's
              \* per-file method returns when it is handed the file
    call1,    \* first direct call of analyze_pr_files on an analyzer object
    call2,    \* second call on the same object with the same arguments
    review,   \* outcome of the review_pr command
    client,   \* outcome of a call on the Linear or the GitHub client
    rule      \* outcome of one rule of an analyzer applied to a text

vars == <<scans, call1, call2, review, client, rule>>

(***************************************************************************)
(* Bounds of the model.                                                    *)
(***************************************************************************)
MaxFiles == 2        \* longest changed-file list handed to an analyzer
MaxHeadings == 3     \* most headings of a document handed to heading_hierarchy
MaxBlocks == 2       \* most blocks of a file handed to function_size
MaxStyleLines == 4   \* most lines of a style sheet handed to focus_management

None == [kind |-> "none"]

----------------------------------------------------------------------------
(***************************************************************************)
(* Generic helpers on sequences and token text.                            *)
(***************************************************************************)
Range(s) == {s[i] : i \in 1..Len(s)}

At(s, i) == IF i \in 1..Len(s) THEN s[i] ELSE "<none>"

\* Smallest element of a set of positions, 0 when the set is empty.
FirstIn(S) == IF S = {} THEN 0 ELSE CHOOSE k \in S : \A m \in S : k <= m

\* Concatenation of the sequences ss[lo..hi], by halving.
RECURSIVE FlattenRange(_, _, _)
FlattenRange(ss, lo, hi) ==
    IF lo > hi THEN <<>>
    ELSE IF lo = hi THEN ss[lo]
    ELSE LET mid == (lo + hi) \div 2
         IN  FlattenRange(ss, lo, mid) \o FlattenRange(ss, mid + 1, hi)

Flatten(ss) == FlattenRange(ss, 1, Len(ss))

\* Sum of the numbers s[lo..hi], by halving.
RECURSIVE SumRange(_, _, _)
SumRange(s, lo, hi) ==
    IF lo > hi THEN 0
    ELSE IF lo = hi THEN s[lo]
    ELSE LET mid == (lo + hi) \div 2
         IN  SumRange(s, lo, mid) + SumRange(s, mid + 1, hi)

SumSeq(s) == SumRange(s, 1, Len(s))

SubSeqFrom(s, i, j) == IF i > j THEN <<>> ELSE SubSeq(s, i, j)

\* Whitespace tokens: a run of blanks inside a line, and the line break of
\* a file's content.
Ws == {" ", "<nl>"}

\* Tokens made of word characters only (\w+).
Words == {"w", "eval", "password", "Password", "secret", "token", "key", "api_key",
          "function", "const", "let", "var", "export", "async", "new", "Function",
          "if", "else", "for", "while", "case", "catch", "query", "return", "true",
          "processUserData", "LONG", "TOKEN20", "useEffect", "useMemo", "useCallback",
          "setInterval", "setTimeout", "clearInterval", "clearTimeout",
          "addEventListener", "removeEventListener", "autoFocus", "onClick",
          "onMouseDown", "onKeyDown", "style", "items", "cors", "include", "RegExp",
          "innerHTML", "dangerouslySetInnerHTML", "Modal", "Dialog", "tabIndex",
          "navigation", "lodash", "moment", "import", "from", "as"}

\* Tokens whose first / last character is a word character (for \b).
StartsWord(t) == t \in Words \cup {"console.log", "console.error", "process.env",
                                   "import.meta.env", "TODO:", "import React",
                                   "Math.random()", "sk_live_KEY"}
EndsWord(t) == t \in Words \cup {"console.log", "console.error", "process.env",
                                 "import.meta.env", "import React", "sk_live_KEY",
                                 ".png"}

\* Substrings of interest contained in a token besides the token itself
\* (Python's  probe in line).
Subs(t) ==
    {t} \cup
    CASE t \in {"<img", "<div", "<span", "<input", "<select", "<textarea", "<label",
                "<button", "<nav", "<main", "<ul", "<ol", "<p", "<=", "< "}
                             -> {"<"}
      [] t \in {"<h1", "<h2", "<h3", "<h4", "<h5", "<h6"} -> {"<", "<h"}
      [] t = "<a"            -> {"<"}
      [] t = "<Image"        -> {"<", "Image"}
      [] t = "<IconButton"   -> {"<"}
      [] t \in {"</h1>", "</h2>", "</div>", "</button>", "</a>", "</span>"}
                             -> {"</", "<", ">"}
      [] t \in {"/>", "=>", ">="} -> {">"}
      [] t = "()"            -> {"(", ")"}
      [] t \in {".forEach("} -> {"for", "("}
      [] t \in {".map(", ".filter(", ".find(", ".push(", ".unshift(", ".splice(",
                ".sort(", ".reduce(", "new Date("}
                             -> {"("}
      [] t \in {"Math.random()", "Date.now()"} -> {"(", ")"}
      [] t = "role=button"   -> {"role="}
      [] t = "id=main"       -> {"id="}
      [] t = "nav-bar"       -> {"nav-"}
      [] t = "focus:ring"    -> {"focus:"}
      [] OTHER               -> {}

In(probe, line) == \E i \in 1..Len(line) : probe \in Subs(line[i])

RECURSIVE SkipWs(_, _)
SkipWs(s, i) == IF i <= Len(s) /\ s[i] \in Ws THEN SkipWs(s, i + 1) ELSE i

\* Match a pattern (a sequence of token sets, optional whitespace \s* allowed
\* between consecutive elements, the element Ws standing for \s+) at
\* position i; the result is the index just after the match, or 0 when the
\* pattern does not match at i.
RECURSIVE MatchEnd(_, _, _)
MatchEnd(s, i, pat) ==
    IF pat = <<>> THEN i
    ELSE IF Head(pat) = Ws          \* \s+ : at least one whitespace token
         THEN IF At(s, i) \in Ws THEN MatchEnd(s, i + 1, Tail(pat)) ELSE 0
         ELSE LET j == SkipWs(s, i)
              IN  IF At(s, j) \in Head(pat) THEN MatchEnd(s, j + 1, Tail(pat)) ELSE 0

MatchAt(s, i, pat) ==
    IF At(s, i) \in Head(pat) THEN MatchEnd(s, i + 1, Tail(pat)) ELSE 0

\* re.search(pattern, line)
Search(s, pat) == \E i \in 1..Len(s) : MatchAt(s, i, pat) # 0

\* line.strip().startswith('//') or line.strip().startswith('*')
IsCommentLine(line) == At(line, SkipWs(line, 1)) \in {"//", "*"}

\* line.rstrip(): drop trailing whitespace tokens
RECURSIVE RStrip(_)
RStrip(line) ==
    IF line # <<>> /\ line[Len(line)] \in Ws
    THEN RStrip(SubSeq(line, 1, Len(line) - 1)) ELSE line

\* Number of characters of a token; LONG stands for a run of 121 characters.
Width(t) == IF t = "LONG" THEN 121 ELSE 1

LineLength(line) == SumSeq([i \in 1..Len(line) |-> Width(line[i])])

\* A location string "line <n><note>"; arg carries the number printed inside
\* the note ("(<arg> chars)").
Loc(n, note, arg) == [line |-> n, note |-> note, arg |-> arg]

Result(locations) == [issues |-> Len(locations), locations |-> locations]

DetailResult(details) == [issues |-> Len(details), details |-> details]

----------------------------------------------------------------------------
(***************************************************************************)
(* Files.  A file of the working tree either does not exist, or exists and *)
(* cannot be read, or holds text, or holds text followed by bytes that     *)
(* cannot be decoded.                                                      *)
(***************************************************************************)
File(lines, nl) == [exists |-> TRUE, readable |-> TRUE, lines |-> lines, nl |-> nl]
Missing == [exists |-> FALSE, readable |-> FALSE, lines |-> <<>>, nl |-> FALSE]
Unreadable == [exists |-> TRUE, readable |-> FALSE, lines |-> <<>>, nl |-> FALSE]
\* A file whose first buffer decodes and a later one does not: f.read() and
\* f.readlines() raise, `for line in f` yields the lines of the first
\* buffer and raises then.
Undecodable(lines) == [exists |-> TRUE, readable |-> FALSE, lines |-> lines, nl |-> TRUE]

\* f.readlines(): the lines of the file
FileLines(f) == f.lines

\* for line_num, line in enumerate(f, 1): the lines the loop body sees
\* before the file ends or the iteration raises
IteratedLines(f) == f.lines

\* f.read(): the whole content, lines joined by line breaks
Content(f) ==
    Flatten([i \in 1..Len(f.lines) |->
                IF i < Len(f.lines) \/ f.nl THEN f.lines[i] \o <<"<nl>">> ELSE f.lines[i]])

\* content.split('\n')
SplitLines(f) ==
    IF f.lines = <<>> THEN << <<>> >>
    ELSE IF f.nl THEN f.lines \o << <<>> >> ELSE f.lines

----------------------------------------------------------------------------
(***************************************************************************)
(* CodeAnalyzer (src/analyzers/code_analyzer.py): per-file rules.          *)
(* Every rule opens the file itself and turns a read error into an empty   *)
(* result.                                                                 *)
(***************************************************************************)
ConsoleCalls == {"console.log", "console.error", "console.warn", "console.info",
                 "console.debug"}

\* pattern console\.(log|error|warn|info|debug)\s*\(
ConsolePattern == <<ConsoleCalls, {"("}>>

\* _check_console_logs without the test of the comment markers
_check_console_logs_counting_comments(f) ==
    LET lines == IteratedLines(f)
    IN  Result(Flatten([n \in 1..Len(lines) |->
            IF Search(lines[n], ConsolePattern) THEN <<Loc(n, "", 0)>> ELSE <<>>]))

_check_console_logs(f) ==
    LET lines == IteratedLines(f)
    IN  Result(Flatten([n \in 1..Len(lines) |->
            IF Search(lines[n], ConsolePattern) /\ ~IsCommentLine(lines[n])
            THEN <<Loc(n, "", 0)>> ELSE <<>>]))

\* pattern (TODO|FIXME|HACK|XXX|BUG): with re.IGNORECASE
TodoMarkers == {"TODO:", "FIXME:", "HACK:", "XXX:", "BUG:", "todo:"}

_check_todos(f) ==
    LET lines == IteratedLines(f)
    IN  Result(Flatten([n \in 1..Len(lines) |->
            IF \E i \in 1..Len(lines[n]) : lines[n][i] \in TodoMarkers
            THEN <<Loc(n, "", 0)>> ELSE <<>>]))

max_length == 120

_check_line_length(f) ==
    LET lines == IteratedLines(f)
    IN  Result(Flatten([n \in 1..Len(lines) |->
            IF LineLength(RStrip(lines[n])) > max_length
            THEN <<Loc(n, "chars", LineLength(RStrip(lines[n])))>> ELSE <<>>]))

\* Index of the first ")" at or after i ([^)]* then \)), 0 when there is none.
ClosingParen(s, i) == FirstIn({k \in i..Len(s) : s[k] = ")"})

\* (?:const|let|var)\s+(\w+)\s*=\s*(?:async\s*)?\([^)]*\)\s*=>  matched at i:
\* index just after the match, or 0.
ArrowMatchAt(s, i) ==
    LET e1 == MatchAt(s, i, <<{"const", "let", "var"}, Ws, Words, {"="}>>)
        a  == IF e1 = 0 THEN 0
              ELSE IF At(s, SkipWs(s, e1)) = "async" THEN SkipWs(s, e1) + 1 ELSE e1
        p  == IF a = 0 THEN 0 ELSE SkipWs(s, a)
        c  == IF p # 0 /\ At(s, p) = "(" THEN ClosingParen(s, p + 1) ELSE 0
    IN  IF c = 0 THEN 0 ELSE MatchEnd(s, c + 1, <<{"=>"}>>)

\* function\s+(\w+) matched at i
FunctionMatchAt(s, i) == MatchAt(s, i, <<{"function"}, Ws, Words>>)

\* func_pattern matched at i, first alternative first
FuncPatternAt(s, i) ==
    IF FunctionMatchAt(s, i) # 0 THEN FunctionMatchAt(s, i) ELSE ArrowMatchAt(s, i)

\* match.group(1) or match.group(2): the identifier after the keyword
FuncPatternName(s, i) == At(s, SkipWs(s, i + 1))

\* func_pattern.finditer(content): start indices of the non-overlapping
\* matches, left to right
RECURSIVE FindFunctions(_, _)
FindFunctions(s, i) ==
    LET k == FirstIn({c \in i..Len(s) : FuncPatternAt(s, c) # 0})
    IN  IF k = 0 THEN <<>> ELSE <<k>> \o FindFunctions(s, FuncPatternAt(s, k))

\* The braces a token contributes, in text order (+1 for '{', -1 for '}').
Braces(t) ==
    CASE t = "{"  -> <<1>>
      [] t = "}"  -> <<-1>>
      [] t = "{{" -> <<1, 1>>
      [] t = "}}" -> <<-1, -1>>
      [] t = "${" -> <<1>>
      [] OTHER    -> <<>>

\* The walk  for i, char in enumerate(content[func_start:], func_start):
\* brace_count and in_function are kept per brace character; func_end is the
\* position of the first '}' that brings the count back to zero after a '{'
\* has been seen, and stays func_start when there is none.
FuncEnd(s, func_start) ==
    LET chars == Flatten([k \in 1..(Len(s) - func_start + 1) |->
                     LET i == func_start + k - 1
                     IN  [b \in 1..Len(Braces(s[i])) |->
                             [i |-> i, char |-> Braces(s[i])[b]]]])
        brace_count(p) == SumSeq([q \in 1..p |-> chars[q].char])
        in_function(p) == \E q \in 1..p : chars[q].char = 1
        closing == {p \in 1..Len(chars) :
                       /\ chars[p].char = -1
                       /\ brace_count(p) = 0
                       /\ in_function(p)}
    IN  IF closing = {} THEN func_start ELSE chars[FirstIn(closing)].i

\* len(re.findall(r'\bkw\b', func_body))
CountKeyword(body, kw) ==
    Cardinality({i \in 1..Len(body) :
        /\ body[i] = kw
        /\ ~EndsWord(At(body, i - 1))
        /\ ~StartsWord(At(body, i + 1))})

HasColon(t) == t \in {":", "TODO:", "FIXME:", "HACK:", "XXX:", "BUG:", "todo:", "focus:"}

NextColon(s, i) == FirstIn({k \in i..Len(s) : HasColon(s[k])})

\* \?\s*[^:]+\s*: matched at the "?" of position i: the index of the colon
\* that ends the match, or 0
TernaryAt(body, i) ==
    LET q == NextColon(body, i + 1)
    IN  IF At(body, i) = "?" /\ q # 0 /\ (q > i + 1 \/ body[q] # ":") THEN q ELSE 0

\* len(re.findall(r'\?\s*[^:]+\s*:', func_body)): non-overlapping matches
RECURSIVE CountTernary(_, _)
CountTernary(body, i) ==
    LET k == FirstIn({c \in i..Len(body) : TernaryAt(body, c) # 0})
    IN  IF k = 0 THEN 0 ELSE 1 + CountTernary(body, TernaryAt(body, k) + 1)

complexity_threshold == 10

Complexity(func_body) ==
    1 + CountKeyword(func_body, "if") + CountKeyword(func_body, "else")
      + CountKeyword(func_body, "for") + CountKeyword(func_body, "while")
      + CountKeyword(func_body, "case") + CountKeyword(func_body, "catch")
      + CountTernary(func_body, 1)

\* content[:func_start].count('\n') + 1
LineOfIndex(s, i) == Cardinality({k \in 1..(i - 1) : s[k] = "<nl>"}) + 1

_check_complexity(f) ==
    IF ~f.readable THEN DetailResult(<<>>)
    ELSE LET content == Content(f)
             starts  == FindFunctions(content, 1)
             One(func_start) ==
                 LET func_end == FuncEnd(content, func_start)
                     func_body == SubSeqFrom(content, func_start, func_end - 1)
                 IN  IF func_end > func_start /\ Complexity(func_body) > complexity_threshold
                     THEN << [function |-> FuncPatternName(content, func_start),
                              complexity |-> Complexity(func_body),
                              line |-> LineOfIndex(content, func_start)] >>
                     ELSE <<>>
         IN  DetailResult(Flatten([k \in 1..Len(starts) |-> One(starts[k])]))

\* line.strip(): drop leading and trailing whitespace tokens
Strip(line) == LET r == RStrip(line) IN SubSeqFrom(r, SkipWs(r, 1), Len(r))

\* Index just after the run of word tokens starting at i (\w+), 0 if none.
RECURSIVE WordRunEnd(_, _)
WordRunEnd(s, i) ==
    IF At(s, i) \in Words
    THEN IF At(s, i + 1) \in Words THEN WordRunEnd(s, i + 1) ELSE i + 1
    ELSE 0

\* re.match(r'(?:export\s+)?(?:async\s+)?function\s+\w+', line)
FunctionDeclMatch(line) ==
    LET a == IF MatchAt(line, 1, <<{"export"}, Ws>>) # 0
             THEN SkipWs(line, 2) ELSE 1
        b == IF MatchAt(line, a, <<{"async"}, Ws>>) # 0
             THEN SkipWs(line, a + 1) ELSE a
    IN  FunctionMatchAt(line, b) # 0

\* re.match(r'\w+\s*\([^)]*\)\s*{', line)
MethodDeclMatch(line) ==
    LET w == WordRunEnd(line, 1)
        p == IF w = 0 THEN 0 ELSE SkipWs(line, w)
        c == IF p # 0 /\ At(line, p) = "(" THEN ClosingParen(line, p + 1) ELSE 0
    IN  c # 0 /\ At(line, SkipWs(line, c + 1)) \in {"{", "{{"}

IsDeclaration(line) ==
    \/ FunctionDeclMatch(line)
    \/ ArrowMatchAt(line, 1) # 0
    \/ MethodDeclMatch(line)

\* re.search(r'(?:function\s+)?(\w+)', line).group(1) on a declaration line
DeclarationName(line) ==
    IF FunctionMatchAt(line, 1) # 0 THEN At(line, SkipWs(line, 2)) ELSE At(line, 1)

\* lines[j].count('{') - lines[j].count('}')
BraceDelta(line) == SumSeq(Flatten([i \in 1..Len(line) |-> Braces(line[i])]))

\* Inner loop of _check_function_size: the first line j > i at which the
\* running brace count is zero, or Len(lines) + 1 when the loop runs off
\* the file.
FunctionEndLine(lines, i) ==
    LET delta == [k \in 1..Len(lines) |-> BraceDelta(lines[k])]
        brace_count(j) == SumSeq(SubSeq(delta, i, j))
        j == FirstIn({k \in (i + 1)..Len(lines) : brace_count(k) = 0})
    IN  IF j = 0 THEN Len(lines) + 1 ELSE j

max_lines == 50

\* Outer loop of _check_function_size (i is the 1-based line index): the
\* next declaration line at or after i is measured and the scan resumes
\* after the line its inner loop stopped at.
RECURSIVE ScanFunctionSizes(_, _)
ScanFunctionSizes(lines, i) ==
    LET func_start == FirstIn({k \in i..Len(lines) : IsDeclaration(Strip(lines[k]))})
    IN  IF func_start = 0 THEN <<>>
        ELSE LET j == FunctionEndLine(lines, func_start)
                 func_lines == j - func_start + 1
                 found == IF j <= Len(lines) /\ func_lines > max_lines
                          THEN << [function |-> DeclarationName(Strip(lines[func_start])),
                                   lines |-> func_lines,
                                   start_line |-> func_start] >>
                          ELSE <<>>
             IN  found \o ScanFunctionSizes(lines, j + 1)

\* One iteration of the outer loop of _check_function_size continuing at
\* the next line after a candidate
function_size_iteration_rescanning(lines, i, large_functions) ==
    IF IsDeclaration(Strip(lines[i]))
    THEN LET j == FunctionEndLine(lines, i)
             func_lines == j - i + 1
         IN  [i |-> i + 1,
              large_functions |->
                  IF j <= Len(lines) /\ func_lines > max_lines
                  THEN Append(large_functions,
                              [function |-> DeclarationName(Strip(lines[i])),
                               lines |-> func_lines, start_line |-> i])
                  ELSE large_functions]
    ELSE [i |-> i + 1, large_functions |-> large_functions]

\* One iteration of the outer loop `while i < len(lines)` of
\* _check_function_size, i being the 1-based number of the line it looks
\* at: the index and the list after the iteration.  When the inner loop
\* runs off the file j is len(lines), else the line it stopped at; in both
\* cases the iteration ends with i = j and i += 1.
function_size_iteration(lines, i, large_functions) ==
    IF IsDeclaration(Strip(lines[i]))
    THEN LET j == FunctionEndLine(lines, i)
             func_lines == j - i + 1
         IN  [i |-> IF j <= Len(lines) THEN j + 1 ELSE Len(lines) + 2,
              large_functions |->
                  IF j <= Len(lines) /\ func_lines > max_lines
                  THEN Append(large_functions,
                              [function |-> DeclarationName(Strip(lines[i])),
                               lines |-> func_lines, start_line |-> i])
                  ELSE large_functions]
    ELSE [i |-> i + 1, large_functions |-> large_functions]

_check_function_size(f) ==
    IF ~f.readable THEN DetailResult(<<>>)
    ELSE DetailResult(ScanFunctionSizes(FileLines(f), 1))

\* CodeAnalyzer.analyze_file
Code_analyze_file(f) ==
    [console_logs    |-> _check_console_logs(f),
     complexity      |-> _check_complexity(f),
     todos           |-> _check_todos(f),
     long_lines      |-> _check_line_length(f),
     large_functions |-> _check_function_size(f)]

----------------------------------------------------------------------------
(***************************************************************************)
(* CodeAnalyzer: the three project-wide checks.  Each runs an external     *)
(* tool with subprocess.run; the outcome of the run is an input of the     *)
(* model: the call raises (npx is not installed), or it returns an exit    *)
(* code and the lines of its standard output.                              *)
(***************************************************************************)
Raises == [raises |-> TRUE, returncode |-> 0, stdout |-> <<>>]
Exit(code, stdout) == [raises |-> FALSE, returncode |-> code, stdout |-> stdout]

\* result.stdout.strip().split('\n')
StripSplit(stdout) == IF stdout = <<>> THEN <<"">> ELSE stdout

\* _check_formatting with a run that raised handled like a failed run.
_check_formatting_failing_when_raised(run) ==
    IF run.raises \/ run.returncode # 0
    THEN LET output_lines == StripSplit(run.stdout)
             Unformatted(line) == line # "" /\ line # "Checking formatting..."
         IN  [status |-> "warning",
              issues |-> Len(SelectSeq(output_lines, Unformatted)),
              fixable |-> TRUE]
    ELSE [status |-> "pass", issues |-> 0, fixable |-> TRUE]

_check_formatting(run) ==
    IF ~run.raises /\ run.returncode # 0
    THEN LET output_lines == StripSplit(run.stdout)
             Unformatted(line) == line # "" /\ line # "Checking formatting..."
         IN  [status |-> "warning",
              issues |-> Len(SelectSeq(output_lines, Unformatted)),
              fixable |-> TRUE]
    ELSE [status |-> "pass", issues |-> 0, fixable |-> TRUE]

\* ESLint's stdout is empty, or is not JSON (json.loads raises), or is a JSON
\* list of per-file records.
NoOutput == [kind |-> "empty", files |-> <<>>]
NotJson == [kind |-> "invalid", files |-> <<>>]
Json(files) == [kind |-> "json", files |-> files]
LintFile(path, errors, warnings) ==
    [filePath |-> path, errorCount |-> errors, warningCount |-> warnings]

_check_linting(run) ==
    IF ~run.raises /\ run.stdout.kind = "json"
    THEN LET lint_results == run.stdout.files
             total_errors == SumSeq([i \in 1..Len(lint_results) |-> lint_results[i].errorCount])
             total_warnings == SumSeq([i \in 1..Len(lint_results) |-> lint_results[i].warningCount])
             HasErrors(file) == file.errorCount > 0
             with_errors == SelectSeq(lint_results, HasErrors)
         IN  IF total_errors > 0
             THEN [status |-> "fail",
                   issues |-> total_errors,
                   details |-> [i \in 1..Len(with_errors) |->
                                   [file |-> with_errors[i].filePath,
                                    errors |-> with_errors[i].errorCount,
                                    warnings |-> with_errors[i].warningCount]]]
             ELSE IF total_warnings > 0
                  THEN [status |-> "warning", issues |-> total_warnings, details |-> <<>>]
                  ELSE [status |-> "pass", issues |-> 0, details |-> <<>>]
    ELSE [status |-> "pass", issues |-> 0, details |-> <<>>]

tsc_details_limit == 10

\* ': error TS' in line
IsTsError(line) == line = "a.ts(1,1): error TS2322"

_check_type_checking(run) ==
    IF ~run.raises /\ run.returncode # 0
    THEN LET error_lines == StripSplit(run.stdout)
         IN  [status |-> "fail",
              issues |-> Len(SelectSeq(error_lines, IsTsError)),
              details |-> SubSeqFrom(error_lines, 1,
                              IF Len(error_lines) < tsc_details_limit
                              THEN Len(error_lines) ELSE tsc_details_limit)]
    ELSE [status |-> "pass", issues |-> 0, details |-> <<>>]

----------------------------------------------------------------------------
(***************************************************************************)
(* SecurityAnalyzer (src/analyzers/security_analyzer.py): rules over the   *)
(* lines of one file.                                                      *)
(***************************************************************************)
Quotes == {"\"", "'"}
\* the three string delimiters of JavaScript; <bt> is the backtick
Quotes3 == {"\"", "'", "<bt>"}

\* Smallest index >= i whose token is in S, 0 when there is none.
FindFrom(s, i, S) == FirstIn({k \in i..Len(s) : s[k] \in S})

\* .*S1.*S2... from index i: the token sets occur in this order
RECURSIVE OccurInOrder(_, _, _)
OccurInOrder(s, i, sets) ==
    IF sets = <<>> THEN TRUE
    ELSE LET k == FindFrom(s, i, Head(sets))
         IN  k # 0 /\ OccurInOrder(s, k + 1, Tail(sets))

\* Every line of the list, numbered from 1, that satisfies Hit gives one
\* location "line <n>".
LineHits(lines, Hit(_)) ==
    Result(Flatten([n \in 1..Len(lines) |->
        IF Hit(lines[n]) THEN <<Loc(n, "", 0)>> ELSE <<>>]))

\* key\s*[:=]\s*["'](?!.*\$\{|process\.env) somewhere in the line
SecretAssignment(line, keys) ==
    \E i \in 1..Len(line) :
        LET e == MatchAt(line, i, <<keys, {":", "="}, Quotes>>)
        IN  /\ e # 0
            /\ FindFrom(line, e, {"${"}) = 0
            /\ At(line, e) # "process.env"

_check_hardcoded_secrets(lines) ==
    LET Hit(line) ==
            /\ ~IsCommentLine(line)
            /\ \/ SecretAssignment(line, {"password", "Password"})
               \/ SecretAssignment(line, {"secret"})
               \/ SecretAssignment(line, {"api_key"})
               \/ Search(line, <<{"token"}, {":", "="}, Quotes, {"TOKEN20"}, Quotes>>)
    IN  LineHits(lines, Hit)

CloseBrace == {"}", "}}"}

_check_sql_injection(lines) ==
    LET Hit(line) ==
            \E i \in 1..Len(line) :
                LET q == MatchAt(line, i, <<{"query"}, {"("}, Quotes3>>)
                    r == MatchAt(line, i, <<{".raw"}, {"("}, Quotes3>>)
                IN  \/ q # 0 /\ OccurInOrder(line, q, <<{"${"}, CloseBrace, Quotes3>>)
                    \/ q # 0 /\ OccurInOrder(line, q, <<{"+"}, Quotes3>>)
                    \/ r # 0 /\ OccurInOrder(line, r, <<{"${"}, CloseBrace>>)
    IN  LineHits(lines, Hit)

_check_xss(lines) ==
    LET Hit(line) ==
            \/ In("dangerouslySetInnerHTML", line)
            \/ Search(line, <<{"innerHTML"}, {"="}>>)
            \/ Search(line, <<{"document.write"}, {"("}>>)
            \/ Search(line, <<{"v-html"}, {"="}>>)
    IN  LineHits(lines, Hit)

Slashes == {"/", "//", "/>", "</h2>", "</div>", "</"}

_check_unsafe_regex(lines) ==
    LET Nested == {"(.*)+", "(.+)+"}
        Hit(line) ==
            \/ \E i \in 1..Len(line) :
                  LET e == MatchAt(line, i, <<{"RegExp"}, {"("}>>)
                      n == IF e = 0 THEN 0 ELSE FindFrom(line, e, Nested)
                  IN  n # 0 /\ (ClosingParen(line, e) = 0 \/ ClosingParen(line, e) > n)
            \/ \E i \in 1..Len(line) :
                  /\ line[i] \in Slashes
                  /\ OccurInOrder(line, i + 1, <<Nested, Slashes>>)
    IN  LineHits(lines, Hit)

ApiKeys == {"AIzaKEY", "MailchimpKEY", "sk_live_KEY", "UUID"}

_check_api_keys(lines) ==
    LET Hit(line) ==
            /\ ~(In("process.env", line) \/ In("import.meta.env", line))
            /\ \E i \in 1..Len(line) : line[i] \in ApiKeys
    IN  LineHits(lines, Hit)

\* tokens containing password|token|secret|key, case-insensitively
SecretWords == {"password", "Password", "token", "secret", "key", "api_key", "key=",
                "sk_live_KEY", "AIzaKEY", "MailchimpKEY", "TOKEN20", "onKeyDown"}

_check_insecure_random(lines) ==
    LET Hit(line) ==
            \E i \in 1..Len(line) :
                /\ line[i] \in {"Math.random()", "Date.now()"}
                /\ FindFrom(line, i + 1, SecretWords) # 0
    IN  LineHits(lines, Hit)

_check_eval_usage(lines) ==
    LET Hit(line) ==
            \/ \E i \in 1..Len(line) :
                  /\ MatchAt(line, i, <<{"eval"}, {"("}>>) # 0
                  /\ ~EndsWord(At(line, i - 1))
            \/ Search(line, <<{"new"}, Ws, {"Function"}, {"("}>>)
            \/ Search(line, <<{"setTimeout"}, {"("}, Quotes3>>)
            \/ Search(line, <<{"setInterval"}, {"("}, Quotes3>>)
    IN  LineHits(lines, Hit)

Stars == {"*", "(.*)+"}

_check_cors_issues(lines) ==
    LET Hit(line) ==
            \/ \E i \in 1..Len(line) :
                  line[i] = "Access-Control-Allow-Origin" /\ FindFrom(line, i + 1, Stars) # 0
            \/ \E i \in 1..Len(line) :
                  LET e == MatchAt(line, i, <<{"credentials:"}, Quotes, {"include"}, Quotes>>)
                  IN  e # 0 /\ \E k \in e..Len(line) :
                          \/ MatchAt(line, k, <<{"origin:"}, Quotes, {"*"}>>) # 0
                          \/ MatchAt(line, k, <<{"origin:"}, {"*"}>>) # 0
            \/ Search(line, <<{"cors"}, {"("}, {"{"}, {"origin:"}, {"true"}>>)
    IN  LineHits(lines, Hit)

\* SecurityAnalyzer._analyze_file: a read error leaves the result empty
Security_analyze_file(f) ==
    IF ~f.readable THEN <<>>
    ELSE LET lines == SplitLines(f)
         IN  [hardcoded_secrets   |-> _check_hardcoded_secrets(lines),
              sql_injection       |-> _check_sql_injection(lines),
              xss_vulnerabilities |-> _check_xss(lines),
              unsafe_regex        |-> _check_unsafe_regex(lines),
              exposed_api_keys    |-> _check_api_keys(lines),
              insecure_random     |-> _check_insecure_random(lines),
              eval_usage          |-> _check_eval_usage(lines),
              cors_issues         |-> _check_cors_issues(lines)]

----------------------------------------------------------------------------
(***************************************************************************)
(* PerformanceAnalyzer (src/analyzers/performance_analyzer.py).            *)
(***************************************************************************)
\* Number of '(' and ')' characters of a token
ParenOpen(t) ==
    IF t \in {"(", "()", ".map(", ".filter(", ".find(", ".forEach(", ".push(",
              ".unshift(", ".splice(", ".sort(", ".reduce(", "new Date(",
              "Math.random()", "Date.now()", "(.*)+", "(.+)+"}
    THEN 1 ELSE 0
ParenClose(t) ==
    IF t \in {")", "()", "Math.random()", "Date.now()", "(.*)+", "(.+)+"} THEN 1 ELSE 0

CountOpen(line) == SumSeq([i \in 1..Len(line) |-> ParenOpen(line[i])])
CountClose(line) == SumSeq([i \in 1..Len(line) |-> ParenClose(line[i])])

\* 'import React' in content or 'from \'react\'' in content
IsReactFile(content) == In("import React", content) \/ In("from 'react'", content)

Min(a, b) == IF a < b THEN a ELSE b
Max(a, b) == IF a > b THEN a ELSE b

_check_unnecessary_rerenders(lines, is_react_file) ==
    LET Hit(line) ==
            /\ ~(In("useEffect", line) \/ In("useMemo", line) \/ In("useCallback", line))
            /\ \/ Search(line, <<{"style"}, {"="}, {"{{"}>>)
               \/ Search(line, <<{"onClick"}, {"="}, {"{"}, {"()"}, {"=>"}>>)
               \/ Search(line, <<Words, {"="}, {"[]"}>>)
               \/ Search(line, <<Words, {"="}, {"{}"}>>)
    IN  IF ~is_react_file THEN Result(<<>>) ELSE LineHits(lines, Hit)

\* Index of the last ")" of the line at or after i, 0 when there is none
LastParen(line, i) ==
    IF \E k \in i..Len(line) : line[k] = ")"
    THEN CHOOSE k \in i..Len(line) :
             line[k] = ")" /\ \A m \in (k + 1)..Len(line) : line[m] # ")"
    ELSE 0

_check_missing_memoization(lines, is_react_file) ==
    LET Pattern(line) ==
            \E i \in 1..Len(line) :
                \/ /\ line[i] = ".filter("
                   /\ \E k \in (i + 1)..Len(line) : line[k] = ")" /\ At(line, k + 1) = ".map("
                \/ /\ line[i] \in {".sort(", ".reduce(", "new Date("}
                   /\ LastParen(line, i + 1) # 0
                   /\ FindFrom(line, LastParen(line, i + 1), {"useMemo"}) = 0
        \* any(keyword in lines[max(0, i-10):i] ...): a line of the slice IS the keyword
        InComponent(i) ==
            \E k \in Max(1, i - 9)..i : lines[k] \in {<<"function">>, <<"const">>, <<"=>">>}
    IN  IF ~is_react_file THEN Result(<<>>)
        ELSE Result(Flatten([i \in 1..Len(lines) |->
                 IF Pattern(lines[i]) /\ InComponent(i) THEN <<Loc(i, "", 0)>> ELSE <<>>]))

_check_large_imports(lines) ==
    LET Hit(line) ==
            \/ Search(line, <<{"import"}, Ws, {"*"}, Ws, {"as"}>>)
            \/ Search(line, <<{"from"}, Ws, Quotes, {"lodash"}, Quotes>>)
            \/ Search(line, <<{"from"}, Ws, Quotes, {"moment"}, Quotes>>)
            \/ \E i \in 1..Len(line) :
                  LET e == MatchAt(line, i, <<{"import"}, Ws, {"{"}>>)
                      c == IF e = 0 THEN 0 ELSE FindFrom(line, e, CloseBrace)
                  IN  c # 0 /\ LineLength(SubSeqFrom(line, e, c - 1)) >= 100
    IN  LineHits(lines, Hit)

ArrayMutations == {".push(", ".unshift(", ".splice("}

\* for j in range(i, min(i + 10, len(lines))): first index j (0-based) whose
\* line mutates an array, -1 when there is none.  lines[j] of the Python list
\* is element j + 1 of the sequence.
RECURSIVE FirstMutation(_, _, _)
FirstMutation(lines, j, stop) ==
    IF j >= stop THEN -1
    ELSE IF \E k \in 1..Len(lines[j + 1]) : lines[j + 1][k] \in ArrayMutations
         THEN j ELSE FirstMutation(lines, j + 1, stop)

_check_inefficient_loops(lines) ==
    LET Nested(line) ==
            /\ In(".map(", line)
            /\ In(".filter(", line) \/ In(".find(", line) \/ In(".forEach(", line)
            /\ CountOpen(line) - CountClose(line) > 2
        One(i) ==
            LET line == lines[i]
                j == IF In("for", line) \/ In("while", line)
                     THEN FirstMutation(lines, i, Min(i + 10, Len(lines))) ELSE -1
            IN  (IF Nested(line) THEN <<Loc(i, "nested array methods", 0)>> ELSE <<>>)
                \o (IF j # -1 THEN <<Loc(j, "array mutation in loop", 0)>> ELSE <<>>)
    IN  Result(Flatten([i \in 1..Len(lines) |-> One(i)]))

\* End of map (rough detection)
EndsMap(line) == In(")", line) /\ CountClose(line) > CountOpen(line)

\* in_map when line i is examined: a ".map(" on a line k <= i, with no end
\* of map detected on the lines k..i-1
InMap(lines, i) ==
    \E k \in 1..i : In(".map(", lines[k]) /\ \A m \in k..(i - 1) : ~EndsMap(lines[m])

ScanMissingKeys(lines) ==
    Flatten([i \in 1..Len(lines) |->
        LET line == lines[i]
            found == /\ InMap(lines, i)
                     /\ In("<", line) /\ In(">", line) /\ ~In("key=", line)
                     /\ ~(In("</", line) \/ In("< ", line) \/ In("<=", line)
                          \/ In(">=", line) \/ In("=>", line))
        IN  IF found THEN <<Loc(i, "missing key in list", 0)>> ELSE <<>>])

_check_missing_keys(lines, is_react_file) ==
    IF ~is_react_file THEN Result(<<>>) ELSE Result(ScanMissingKeys(lines))

_check_sync_operations(lines) ==
    LET Hit(line) ==
            \/ In("fs.readFileSync", line)
            \/ In("fs.writeFileSync", line)
            \/ \E i \in 1..Len(line) :
                  LET e == MatchAt(line, i, <<{"while"}, {"("}>>)
                  IN  e # 0 /\ FindFrom(line, e, {"Date.now()"}) # 0
    IN  LineHits(lines, Hit)

\* for j in range(i, min(i + 20, len(lines))): some lines[j] holds a return
\* and an arrow
HasCleanup(lines, i) ==
    \E j \in i..(Min(i + 20, Len(lines)) - 1) :
        In("return", lines[j + 1]) /\ In("=>", lines[j + 1])

\* The lines recorded in a tracking list after line i has been processed:
\* the Adds lines since the last line that Clears without adding.
Tracked(lines, i, Adds(_), Clears(_)) ==
    LET reset == {m \in 1..i : Clears(lines[m]) /\ ~Adds(lines[m])}
    IN  {k \in 1..i : Adds(lines[k]) /\ \A m \in reset : m < k}

add_listener_lines(lines, i) ==
    LET Adds(line) == In("addEventListener", line)
        Clears(line) == In("removeEventListener", line)
    IN  Tracked(lines, i, Adds, Clears)

set_interval_lines(lines, i) ==
    LET Adds(line) == In("setInterval", line) \/ In("setTimeout", line)
        Clears(line) == In("clearInterval", line) \/ In("clearTimeout", line)
    IN  Tracked(lines, i, Adds, Clears)

ScanMemoryLeaks(lines) ==
    Flatten([i \in 1..Len(lines) |->
        LET found == /\ In("useEffect", lines[i])
                     /\ ~HasCleanup(lines, i)
                     /\ (add_listener_lines(lines, i) # {} \/ set_interval_lines(lines, i) # {})
        IN  IF found THEN <<Loc(i, "useEffect without cleanup", 0)>> ELSE <<>>])

_check_memory_leaks(lines) == Result(ScanMemoryLeaks(lines))

ImageExts == {".png", ".jpg", ".jpeg"}

\* <img\s+.*src=.*\.(?:png|jpg|jpeg).*(?!loading) somewhere in the line
ImgTagPattern(line) ==
    \E i \in 1..Len(line) :
        /\ line[i] = "<img" /\ At(line, i + 1) \in Ws
        /\ OccurInOrder(line, i + 2, <<{"src="}, ImageExts>>)

\* require\s*\(['"][^'"]*(png|jpg|jpeg) somewhere in the line
RequireImagePattern(line) ==
    \E i \in 1..Len(line) :
        LET e == MatchAt(line, i, <<{"require"}, {"("}>>)
        IN  /\ e # 0 /\ At(line, e) \in Quotes
            /\ \E k \in (e + 1)..Len(line) :
                   /\ line[k] \in ImageExts
                   /\ \A m \in (e + 1)..(k - 1) : line[m] \notin Quotes

_check_unoptimized_images(lines) ==
    LET Hit(line) == /\ ImgTagPattern(line) \/ RequireImagePattern(line)
                     /\ ~In("loading=", line) /\ ~In("Image", line)
    IN  LineHits(lines, Hit)

\* PerformanceAnalyzer._analyze_file
Performance_analyze_file(f) ==
    IF ~f.readable THEN <<>>
    ELSE LET lines == SplitLines(f)
             is_react_file == IsReactFile(Content(f))
         IN  [unnecessary_rerenders |-> _check_unnecessary_rerenders(lines, is_react_file),
              missing_memoization   |-> _check_missing_memoization(lines, is_react_file),
              large_bundle_imports  |-> _check_large_imports(lines),
              inefficient_loops     |-> _check_inefficient_loops(lines),
              missing_keys          |-> _check_missing_keys(lines, is_react_file),
              sync_operations       |-> _check_sync_operations(lines),
              memory_leaks          |-> _check_memory_leaks(lines),
              unoptimized_images    |-> _check_unoptimized_images(lines)]

----------------------------------------------------------------------------
(***************************************************************************)
(* AccessibilityAnalyzer (src/analyzers/accessibility_analyzer.py).        *)
(***************************************************************************)
_check_missing_alt_text(lines) ==
    LET One(i) ==
            LET line == lines[i]
            IN  (IF In("<img", line) /\ ~In("alt=", line) /\ (In(">", line) \/ In("/>", line))
                 THEN <<Loc(i, "", 0)>> ELSE <<>>)
                \o (IF In("<Image", line) /\ ~In("alt=", line) /\ In("/>", line)
                    THEN <<Loc(i, "", 0)>> ELSE <<>>)
    IN  Result(Flatten([i \in 1..Len(lines) |-> One(i)]))

\* tokens containing 'button' / 'icon' once the line is lower-cased
ButtonTokens == {"<button", "</button>", "<IconButton", "role=button", "button"}
IconTokens == {"<IconButton", "icon", "Icon"}
\* tokens containing '>'
GtTokens == {">", "/>", "=>", ">=", "</h1>", "</h2>", "</div>", "</button>", "</a>",
             "</span>"}
AriaLabels == {"aria-label=", "aria-labelledby="}

_check_missing_aria_labels(lines) ==
    LET IconOnly(line) ==
            /\ \E i \in 1..Len(line) : line[i] \in ButtonTokens
            /\ \E i \in 1..Len(line) : line[i] \in IconTokens
            /\ ~In("aria-label=", line) /\ ~In("aria-labelledby=", line)
            /\ ~In("title=", line)
        \* <button[^>]*>(?:(?!aria-label|aria-labelledby|children).)*<\/button>
        EmptyButton(line) ==
            \E i \in 1..Len(line) :
                /\ line[i] \in {"<button", "<Button"}
                /\ LET g == FindFrom(line, i + 1, GtTokens)
                   IN  /\ g # 0
                       /\ \E c \in (g + 1)..Len(line) :
                             /\ line[c] = "</button>"
                             /\ \A k \in (g + 1)..(c - 1) :
                                   line[k] \notin AriaLabels \cup {"children"}
        \* <a[^>]*><\/a>
        EmptyLink(line) ==
            \E i \in 1..Len(line) :
                /\ line[i] = "<a"
                /\ LET g == FindFrom(line, i + 1, GtTokens)
                   IN  g # 0 /\ line[g] = ">" /\ At(line, g + 1) = "</a>"
        \* role="button"(?!.*aria-label), <IconButton(?!.*aria-label)
        Unlabelled(line) ==
            \E i \in 1..Len(line) :
                /\ line[i] \in {"role=button", "<IconButton"}
                /\ FindFrom(line, i + 1, AriaLabels) = 0
        One(i) ==
            LET line == lines[i]
            IN  (IF IconOnly(line) THEN <<Loc(i, "icon button needs aria-label", 0)>> ELSE <<>>)
                \o (IF EmptyButton(line) \/ EmptyLink(line) \/ Unlabelled(line)
                    THEN <<Loc(i, "", 0)>> ELSE <<>>)
    IN  Result(Flatten([i \in 1..Len(lines) |-> One(i)]))

InputTypes == <<"input", "select", "textarea">>
InputTag(input_type) ==
    CASE input_type = "input" -> "<input"
      [] input_type = "select" -> "<select"
      [] input_type = "textarea" -> "<textarea"

_check_missing_form_labels(lines) ==
    LET \* for j in range(max(0, i-5), min(len(lines), i+5)): '<label' in lines[j]
        LabelNear(i) ==
            \E j \in Max(0, i - 5)..(Min(Len(lines), i + 5) - 1) : In("<label", lines[j + 1])
        One(i, input_type) ==
            LET line == lines[i]
                has_label == In("aria-label=", line) \/ In("aria-labelledby=", line)
                             \/ In("id=", line)
            IN  IF /\ In(InputTag(input_type), line)
                   /\ ~In("type=hidden", line)
                   /\ ~has_label
                   /\ ~LabelNear(i)
                THEN <<Loc(i, input_type, 0)>> ELSE <<>>
    IN  Result(Flatten([i \in 1..Len(lines) |->
            Flatten([t \in 1..Len(InputTypes) |-> One(i, InputTypes[t])])]))

LowContrast == {"color:#eeeeee", "color:#111111", "text-gray-400", "text-gray-300",
                "opacity-50"}
TextElements == {"<p", "<span", "<div", "<h1", "<h2", "<h3", "<h4", "<a"}

_check_color_contrast(lines) ==
    LET One(i) ==
            LET line == lines[i]
            IN  IF /\ \E k \in 1..Len(line) : line[k] \in LowContrast
                   /\ \E k \in 1..Len(line) : line[k] \in TextElements
                THEN <<Loc(i, "potential low contrast", 0)>> ELSE <<>>
    IN  Result(Flatten([i \in 1..Len(lines) |-> One(i)]))

_check_interactive_elements(lines) ==
    LET One(i) ==
            LET line == lines[i]
            IN  (IF /\ In("<div", line) /\ In("onClick", line)
                    /\ ~In("role=", line) /\ ~In("tabIndex", line)
                 THEN <<Loc(i, "div with onClick needs role and tabIndex", 0)>> ELSE <<>>)
                \o (IF In("<span", line) /\ In("onClick", line)
                    THEN <<Loc(i, "use button instead of span with onClick", 0)>> ELSE <<>>)
                \o (IF In("onMouseDown", line) /\ ~In("onKeyDown", line)
                    THEN <<Loc(i, "mouse event without keyboard equivalent", 0)>> ELSE <<>>)
    IN  Result(Flatten([i \in 1..Len(lines) |-> One(i)]))

HeadingTags == {"<h1", "<h2", "<h3", "<h4", "<h5", "<h6"}
HeadingLevel(t) ==
    CASE t = "<h1" -> 1 [] t = "<h2" -> 2 [] t = "<h3" -> 3 [] t = "<h4" -> 4
      [] t = "<h5" -> 5 [] t = "<h6" -> 6

\* heading_pattern.finditer(content) for <h([1-6])[^>]*> : the start indices
\* of the non-overlapping matches
RECURSIVE FindHeadings(_, _)
FindHeadings(content, i) ==
    LET k == FirstIn({c \in i..Len(content) :
                 content[c] \in HeadingTags /\ FindFrom(content, c + 1, GtTokens) # 0})
    IN  IF k = 0 THEN <<>>
        ELSE <<k>> \o FindHeadings(content, FindFrom(content, k + 1, GtTokens) + 1)

\* _check_heading_hierarchy looking for skipped levels only when the page
\* starts with h1
_check_heading_hierarchy_first_then_skips(content) ==
    LET headings == FindHeadings(content, 1)
        Level(k) == HeadingLevel(content[headings[k]])
    IN  IF headings # <<>> /\ Level(1) # 1
        THEN Result(<<Loc(LineOfIndex(content, headings[1]), "page should start with h1", 0)>>)
        ELSE Result(Flatten([k \in 1..Len(headings) |->
                       IF k > 1 /\ Level(k) > Level(k - 1) + 1
                       THEN <<Loc(LineOfIndex(content, headings[k]), "skipped heading level", 0)>>
                       ELSE <<>>]))

_check_heading_hierarchy(content) ==
    LET headings == FindHeadings(content, 1)
        Level(k) == HeadingLevel(content[headings[k]])
        first == IF headings # <<>> /\ Level(1) # 1
                 THEN <<Loc(LineOfIndex(content, headings[1]), "page should start with h1", 0)>>
                 ELSE <<>>
        skipped == Flatten([k \in 1..Len(headings) |->
                       IF k > 1 /\ Level(k) > Level(k - 1) + 1
                       THEN <<Loc(LineOfIndex(content, headings[k]), "skipped heading level", 0)>>
                       ELSE <<>>])
    IN  Result(first \o skipped)

_check_focus_management(lines) ==
    LET \* ':focus' not in lines[max(0, i-3):i+3]: no line of the slice IS ':focus'
        FocusStyleNear(i) ==
            \E k \in (Max(0, i - 3) + 1)..Min(i + 3, Len(lines)) : lines[k] = <<":focus">>
        One(i) ==
            LET line == lines[i]
            IN  (IF /\ In("outline-none", line) \/ In("outline: none", line)
                    /\ ~In("focus:", line)
                    /\ ~FocusStyleNear(i)
                 THEN <<Loc(i, "outline removed without focus indicator", 0)>> ELSE <<>>)
                \o (IF In("autoFocus", line) /\ ~In("Modal", line) /\ ~In("Dialog", line)
                    THEN <<Loc(i, "avoid autoFocus on page load", 0)>> ELSE <<>>)
    IN  Result(Flatten([i \in 1..Len(lines) |-> One(i)]))

_check_semantic_html(lines) ==
    LET One(i) ==
            LET line == lines[i]
            IN  (IF /\ In("<div", line)
                    /\ In("navigation", line) \/ In("nav-", line)
                    /\ ~In("<nav", line)
                 THEN <<Loc(i, "use <nav> for navigation", 0)>> ELSE <<>>)
                \o (IF /\ In("<div", line)
                       /\ In("main-content", line) \/ In("id=main", line)
                       /\ ~In("<main", line)
                    THEN <<Loc(i, "use <main> for main content", 0)>> ELSE <<>>)
                \o (IF /\ In("className=list", line) \/ In("class=list", line)
                       /\ ~In("<ul", line) /\ ~In("<ol", line)
                    THEN <<Loc(i, "use <ul> or <ol> for lists", 0)>> ELSE <<>>)
    IN  Result(Flatten([i \in 1..Len(lines) |-> One(i)]))

\* AccessibilityAnalyzer._analyze_file
Accessibility_analyze_file(f) ==
    IF ~f.readable THEN <<>>
    ELSE LET lines == SplitLines(f)
         IN  [missing_alt_text     |-> _check_missing_alt_text(lines),
              missing_aria_labels  |-> _check_missing_aria_labels(lines),
              missing_form_labels  |-> _check_missing_form_labels(lines),
              color_contrast       |-> _check_color_contrast(lines),
              interactive_elements |-> _check_interactive_elements(lines),
              heading_hierarchy    |-> _check_heading_hierarchy(Content(f)),
              focus_management     |-> _check_focus_management(lines),
              semantic_html        |-> _check_semantic_html(lines)]

----------------------------------------------------------------------------
(***************************************************************************)
(* The working tree under repo_path.  No command of the toolkit writes to  *)
(* it, so it is the same tree for every call.                              *)
(***************************************************************************)
Sp == " "
Q == "\""

\* n copies of a line
Repeat(line, n) == [i \in 1..n |-> line]

\* A React component with one finding for most rules
AppTsx ==
    File(<< <<"import React", Sp, "from 'react'">>,
            <<"function", Sp, "w", "(", ")", Sp, "{">>,
            <<Sp, "console.log", "(", "w", ")">>,
            <<Sp, "//", Sp, "console.log", "(", "w", ")">>,
            <<Sp, "<h2", ">", "w", "</h2>">>,
            <<Sp, "<img", Sp, "src=", "w", ".png", "/>">>,
            <<Sp, "<div", Sp, "onClick", "=", "{", "()", "=>", "w", "}", Sp,
              "style", "=", "{{", "}}", ">">>,
            <<Sp, "eval", "(", "w", ")">>,
            <<Sp, "password", Sp, "=", Sp, Q, "w", Q, Sp, "+", Sp, "process.env">>,
            <<Sp, "for", Sp, "(", "w", ")", Sp, "{">>,
            <<Sp, "items", ".push(", "w", ")">>,
            <<Sp, "}">>,
            <<"}">> >>, TRUE)

TenIfs == Flatten(Repeat(<<Sp, "if">>, 10))

\* A module with a comment marker, a long line, a complex function, a
\* function of 52 lines, a call of a function whose name ends in "eval", a
\* commented-out password and a loop over an unfinished chain of array
\* methods
UtilTs ==
    File(<< <<"//", Sp, "TODO:", Sp, "w">>,
            <<"w", Sp, "=", Sp, "LONG">>,
            <<"function", Sp, "processUserData", "(", ")", Sp, "{">> \o TenIfs \o <<Sp, "}">>,
            <<>>,
            <<"export", Sp, "function", Sp, "w", "(", ")", Sp, "{">> >>
         \o Repeat(<<Sp, "w">>, 50)
         \o << <<"}">>,
               <<"w", "eval", "(", "w", ")">>,
               <<"//", Sp, "password", Sp, "=", Sp, Q, "w", Q>>,
               <<"for", Sp, "(", "w", ")", Sp, "{">>,
               <<Sp, "w", ".map(", "w", ".filter(", "(", "w">>,
               <<Sp, "w">>,
               <<Sp, "items", ".push(", "w", ")">>,
               <<"}">>,
               <<"//", Sp, "eval", "(", "w", ")">>,
               <<Sp, "*", Sp, "sk_live_KEY">> >>, TRUE)

\* A configuration file: only the security analyzer accepts its extension
DeployYml ==
    File(<< <<"password", ":", Sp, Q, "w", Q>>,
            <<"api_key", ":", Sp, "sk_live_KEY">>,
            <<"key", ":", Sp, "process.env", Sp, "UUID">> >>, FALSE)

\* A document no analyzer accepts, full of text the rules would flag
ReadmeMd ==
    File(<< <<"console.log", "(", "w", ")">>,
            <<"eval", "(", "w", ")">>,
            <<"password", "=", Q, "w", Q>>,
            <<"<img", Sp, "src=", "w", ".png", ">">>,
            <<"//", Sp, "TODO:", Sp, "w">> >>, TRUE)

\* A script whose tail cannot be decoded
MixedJs ==
    Undecodable(<< <<"console.log", "(", "w", ")">>,
                   <<"eval", "(", "w", ")">>,
                   <<"//", Sp, "FIXME:", Sp, "w">> >>)

Paths == {"src/App.tsx", "src/util.ts", "deploy.yml", "README.md", "src/gone.ts",
          "src/blob.ts", "src/mixed.js"}

Repo ==
    [path \in Paths |->
        CASE path = "src/App.tsx" -> AppTsx
          [] path = "src/util.ts" -> UtilTs
          [] path = "deploy.yml"  -> DeployYml
          [] path = "README.md"   -> ReadmeMd
          [] path = "src/gone.ts" -> Missing
          [] path = "src/blob.ts" -> Unreadable
          [] path = "src/mixed.js" -> MixedJs]

----------------------------------------------------------------------------
(***************************************************************************)
(* Aggregation of the per-file results into the report of one analyzer.    *)
(***************************************************************************)
\* dict[key] = value on a Python dict modelled as a record
SetKey(r, k, v) == (k :> v) @@ r

Message(text, count) == [text |-> text, count |-> count]

\* The file name a path ends with, as far as str.endswith can tell
Suffix(path) ==
    CASE path = "src/App.tsx" -> ".tsx"
      [] path = "src/util.ts" -> ".ts"
      [] path = "src/gone.ts" -> ".ts"
      [] path = "src/blob.ts" -> ".ts"
      [] path = "src/mixed.js" -> ".js"
      [] path = "deploy.yml"  -> ".yml"
      [] path = "README.md"   -> ".md"

\* `for file in changed_files:` of analyze_pr_files: skip the paths that are
\* not accepted or do not exist, merge the results of the others in order.
\* file_results[file] is what the analyzer's per-file method returns for
\* the file.
Aggregate(all_results, changed_files, ShouldAnalyze(_), file_results, Merge(_, _, _)) ==
    LET acc[k \in 0..Len(changed_files)] ==
            IF k = 0 THEN all_results
            ELSE LET file == changed_files[k]
                 IN  IF ~ShouldAnalyze(file) \/ ~Repo[file].exists
                     THEN acc[k - 1]
                     ELSE Merge(acc[k - 1], file, file_results[file])
    IN  acc[Len(changed_files)]

\* [f"{file}:{loc}" for loc in result['locations']]
Prefixed(file, locations) ==
    [i \in 1..Len(locations) |-> SetKey(locations[i], "file", file)]

\* [{**detail, 'file': file} for detail in result['details']]
WithFile(file, details) ==
    [i \in 1..Len(details) |-> SetKey(details[i], "file", file)]

\* dict.setdefault(key, [])
GetDefault(r, k) == IF k \in DOMAIN r THEN r[k] ELSE <<>>

\* Code_merge with the counts added and the evidence lists left as they were.
Code_merge_counts_only(all_results, file, file_results) ==
    [check \in DOMAIN all_results |->
        IF check \in DOMAIN file_results /\ file_results[check].issues > 0
        THEN [all_results[check] EXCEPT !.issues = @ + file_results[check].issues]
        ELSE all_results[check]]

\* "Aggregate results" of CodeAnalyzer.analyze_pr_files
Code_merge(all_results, file, file_results) ==
    [check \in DOMAIN all_results |->
        IF check \in DOMAIN file_results /\ file_results[check].issues > 0
        THEN LET result == file_results[check]
                 r1 == [all_results[check] EXCEPT !.issues = @ + result.issues]
                 r2 == IF "locations" \in DOMAIN result
                       THEN SetKey(r1, "locations",
                                GetDefault(r1, "locations") \o Prefixed(file, result.locations))
                       ELSE r1
             IN  IF "details" \in DOMAIN result
                 THEN SetKey(r2, "details",
                          GetDefault(r2, "details") \o WithFile(file, result.details))
                 ELSE r2
        ELSE all_results[check]]

\* "Aggregate results" of the Security, Performance and Accessibility
\* analyzers (the three loops are the same code)
Locations_merge(all_results, file, file_results) ==
    [check \in DOMAIN all_results |->
        IF check \in DOMAIN file_results /\ file_results[check].issues > 0
        THEN [all_results[check] EXCEPT
                 !.issues = @ + file_results[check].issues,
                 !.locations = @ \o Prefixed(file, file_results[check].locations)]
        ELSE all_results[check]]

(***************************************************************************)
(* CodeAnalyzer.analyze_pr_files                                           *)
(***************************************************************************)
Code_extensions == {".ts", ".tsx", ".js", ".jsx"}

\* Code_should_analyze_file without the test of the extension.
Code_should_analyze_any_file(file_path) == TRUE

Code_should_analyze_file(file_path) == Suffix(file_path) \in Code_extensions

Code_all_results ==
    [console_logs    |-> [status |-> "pass", issues |-> 0, locations |-> <<>>],
     complexity      |-> [status |-> "pass", issues |-> 0, details |-> <<>>],
     todos           |-> [status |-> "pass", issues |-> 0, locations |-> <<>>],
     formatting      |-> [status |-> "pass", issues |-> 0, fixable |-> TRUE],
     linting         |-> [status |-> "pass", issues |-> 0, details |-> <<>>],
     type_checking   |-> [status |-> "pass", issues |-> 0, details |-> <<>>],
     long_lines      |-> [status |-> "pass", issues |-> 0, locations |-> <<>>],
     large_functions |-> [status |-> "pass", issues |-> 0, details |-> <<>>]]

\* Code_fail_checks with linting escalating as well.
Code_fail_checks_with_linting == {"console_logs", "type_checking", "linting"}

Code_fail_checks == {"console_logs", "type_checking"}

Code_issue_message(check) ==
    CASE check = "console_logs"    -> "Found {n} console.log statements"
      [] check = "complexity"      -> "Found {n} complex functions"
      [] check = "todos"           -> "Found {n} TODO comments"
      [] check = "formatting"      -> "Found {n} formatting issues"
      [] check = "linting"         -> "Found {n} linting errors"
      [] check = "type_checking"   -> "Found {n} TypeScript errors"
      [] check = "long_lines"      -> "Found {n} lines over 120 characters"
      [] check = "large_functions" -> "Found {n} functions over 50 lines"

Code_get_pass_message(check) ==
    CASE check = "console_logs"    -> "No console.log statements"
      [] check = "complexity"      -> "All functions have acceptable complexity"
      [] check = "todos"           -> "No TODO comments"
      [] check = "formatting"      -> "Code is properly formatted"
      [] check = "linting"         -> "No linting errors"
      [] check = "type_checking"   -> "No TypeScript errors"
      [] check = "long_lines"      -> "All lines within length limit"
      [] check = "large_functions" -> "All functions are reasonably sized"

\* "Update statuses based on issue counts"
Code_update_status(check, result) ==
    IF result.issues > 0
    THEN SetKey(SetKey(result, "status",
                       IF check \in Code_fail_checks THEN "fail" ELSE "warning"),
                "message", Message(Code_issue_message(check), result.issues))
    ELSE SetKey(result, "message", Message(Code_get_pass_message(check), 0))

Code_analyze_pr_files(changed_files, runs) ==
    LET per_file == Aggregate(Code_all_results, changed_files,
                              Code_should_analyze_file, scans.code, Code_merge)
        all_results == [per_file EXCEPT
                           !.formatting = _check_formatting(runs.prettier),
                           !.linting = _check_linting(runs.eslint),
                           !.type_checking = _check_type_checking(runs.tsc)]
    IN  [check \in DOMAIN all_results |-> Code_update_status(check, all_results[check])]

(***************************************************************************)
(* SecurityAnalyzer.analyze_pr_files                                       *)
(***************************************************************************)
Security_extensions == {".ts", ".tsx", ".js", ".jsx", ".json", ".env", ".yml", ".yaml"}

Security_should_analyze_file(file_path) == Suffix(file_path) \in Security_extensions

Security_checks == {"hardcoded_secrets", "sql_injection", "xss_vulnerabilities",
                    "unsafe_regex", "exposed_api_keys", "insecure_random",
                    "eval_usage", "cors_issues"}

\* Security_all_results shared between the calls on one object: the second
\* call starts from what the first one left.
Security_all_results_kept ==
    IF call1 # None /\ call1.analyzer = "security"
    THEN call1.report
    ELSE [check \in Security_checks |-> [status |-> "pass", issues |-> 0, locations |-> <<>>]]

Security_all_results ==
    [check \in Security_checks |-> [status |-> "pass", issues |-> 0, locations |-> <<>>]]

\* Security_fail_checks without eval_usage.
Security_fail_checks_without_eval == {"hardcoded_secrets", "sql_injection"}

Security_fail_checks == {"hardcoded_secrets", "sql_injection", "eval_usage"}

Security_issue_message(check) ==
    CASE check = "hardcoded_secrets"   -> "Found {n} hardcoded secrets or passwords"
      [] check = "sql_injection"       -> "Found {n} potential SQL injection vulnerabilities"
      [] check = "xss_vulnerabilities" -> "Found {n} potential XSS vulnerabilities"
      [] check = "unsafe_regex"        -> "Found {n} potentially unsafe regular expressions"
      [] check = "exposed_api_keys"    -> "Found {n} exposed API keys"
      [] check = "insecure_random"     -> "Found {n} uses of insecure random generation"
      [] check = "eval_usage"          -> "Found {n} uses of eval() or similar functions"
      [] check = "cors_issues"         -> "Found {n} insecure CORS configurations"

Security_get_pass_message(check) ==
    CASE check = "hardcoded_secrets"   -> "No hardcoded secrets found"
      [] check = "sql_injection"       -> "No SQL injection risks detected"
      [] check = "xss_vulnerabilities" -> "No XSS vulnerabilities found"
      [] check = "unsafe_regex"        -> "All regular expressions appear safe"
      [] check = "exposed_api_keys"    -> "No exposed API keys found"
      [] check = "insecure_random"     -> "Secure random generation used"
      [] check = "eval_usage"          -> "No dangerous eval() usage found"
      [] check = "cors_issues"         -> "CORS configuration appears secure"

\* "Update statuses and messages"
Security_update_status(check, result) ==
    IF result.issues > 0
    THEN SetKey(SetKey(result, "status",
                       IF check \in Security_fail_checks THEN "fail" ELSE "warning"),
                "message", Message(Security_issue_message(check), result.issues))
    ELSE SetKey(result, "message", Message(Security_get_pass_message(check), 0))

Security_analyze_pr_files(changed_files) ==
    LET all_results == Aggregate(Security_all_results, changed_files,
                                 Security_should_analyze_file, scans.security,
                                 Locations_merge)
    IN  [check \in DOMAIN all_results |-> Security_update_status(check, all_results[check])]

(***************************************************************************)
(* PerformanceAnalyzer.analyze_pr_files                                    *)
(***************************************************************************)
Performance_extensions == {".ts", ".tsx", ".js", ".jsx"}

Performance_should_analyze_file(file_path) == Suffix(file_path) \in Performance_extensions

Performance_checks == {"unnecessary_rerenders", "missing_memoization",
                       "large_bundle_imports", "inefficient_loops", "missing_keys",
                       "sync_operations", "memory_leaks", "unoptimized_images"}

Performance_all_results ==
    [check \in Performance_checks |-> [status |-> "pass", issues |-> 0, locations |-> <<>>]]

Performance_issue_message(check) ==
    CASE check = "unnecessary_rerenders" -> "Found {n} patterns causing unnecessary re-renders"
      [] check = "missing_memoization"   -> "Found {n} expensive operations without memoization"
      [] check = "large_bundle_imports"  -> "Found {n} imports that increase bundle size"
      [] check = "inefficient_loops"     -> "Found {n} inefficient loop patterns"
      [] check = "missing_keys"          -> "Found {n} list items missing keys"
      [] check = "sync_operations"       -> "Found {n} synchronous operations that could block"
      [] check = "memory_leaks"          -> "Found {n} potential memory leaks"
      [] check = "unoptimized_images"    -> "Found {n} unoptimized images"

Performance_get_pass_message(check) ==
    CASE check = "unnecessary_rerenders" -> "No unnecessary re-render patterns found"
      [] check = "missing_memoization"   -> "Expensive operations are properly memoized"
      [] check = "large_bundle_imports"  -> "All imports are optimized"
      [] check = "inefficient_loops"     -> "Loop patterns are efficient"
      [] check = "missing_keys"          -> "All list items have proper keys"
      [] check = "sync_operations"       -> "No blocking synchronous operations"
      [] check = "memory_leaks"          -> "No memory leak patterns detected"
      [] check = "unoptimized_images"    -> "Images are properly optimized"

\* Performance_update_status escalating memory leaks and inefficient loops
\* to fail.
Performance_update_status_with_fail(check, result) ==
    IF result.issues > 0
    THEN SetKey(SetKey(result, "status",
                       IF check \in {"memory_leaks", "inefficient_loops"}
                       THEN "fail" ELSE "warning"),
                "message", Message(Performance_issue_message(check), result.issues))
    ELSE SetKey(result, "message", Message(Performance_get_pass_message(check), 0))

Performance_update_status(check, result) ==
    IF result.issues > 0
    THEN SetKey(SetKey(result, "status", "warning"),
                "message", Message(Performance_issue_message(check), result.issues))
    ELSE SetKey(result, "message", Message(Performance_get_pass_message(check), 0))

Performance_analyze_pr_files(changed_files) ==
    LET all_results == Aggregate(Performance_all_results, changed_files,
                                 Performance_should_analyze_file, scans.performance,
                                 Locations_merge)
    IN  [check \in DOMAIN all_results |-> Performance_update_status(check, all_results[check])]

(***************************************************************************)
(* AccessibilityAnalyzer.analyze_pr_files                                  *)
(***************************************************************************)
Accessibility_extensions == {".tsx", ".jsx"}

Accessibility_should_analyze_file(file_path) ==
    Suffix(file_path) \in Accessibility_extensions

Accessibility_checks == {"missing_alt_text", "missing_aria_labels", "missing_form_labels",
                         "color_contrast", "interactive_elements", "heading_hierarchy",
                         "focus_management", "semantic_html"}

Accessibility_all_results ==
    [check \in Accessibility_checks |-> [status |-> "pass", issues |-> 0, locations |-> <<>>]]

Accessibility_issue_message(check) ==
    CASE check = "missing_alt_text"     -> "Found {n} images missing alt text"
      [] check = "missing_aria_labels"  -> "Found {n} elements missing ARIA labels"
      [] check = "missing_form_labels"  -> "Found {n} form inputs without labels"
      [] check = "color_contrast"       -> "Found {n} potential color contrast issues"
      [] check = "interactive_elements" -> "Found {n} non-accessible interactive elements"
      [] check = "heading_hierarchy"    -> "Found {n} heading hierarchy issues"
      [] check = "focus_management"     -> "Found {n} focus management issues"
      [] check = "semantic_html"        -> "Found {n} non-semantic HTML elements"

Accessibility_get_pass_message(check) ==
    CASE check = "missing_alt_text"     -> "All images have alt text"
      [] check = "missing_aria_labels"  -> "Interactive elements have proper labels"
      [] check = "missing_form_labels"  -> "All form inputs have labels"
      [] check = "color_contrast"       -> "No obvious color contrast issues"
      [] check = "interactive_elements" -> "Interactive elements are accessible"
      [] check = "heading_hierarchy"    -> "Heading hierarchy is correct"
      [] check = "focus_management"     -> "Focus indicators are preserved"
      [] check = "semantic_html"        -> "Semantic HTML is used appropriately"

Accessibility_update_status(check, result) ==
    IF result.issues > 0
    THEN SetKey(SetKey(result, "status", "warning"),
                "message", Message(Accessibility_issue_message(check), result.issues))
    ELSE SetKey(result, "message", Message(Accessibility_get_pass_message(check), 0))

Accessibility_analyze_pr_files(changed_files) ==
    LET all_results == Aggregate(Accessibility_all_results, changed_files,
                                 Accessibility_should_analyze_file,
                                 scans.accessibility, Locations_merge)
    IN  [check \in DOMAIN all_results |->
            Accessibility_update_status(check, all_results[check])]

----------------------------------------------------------------------------
(***************************************************************************)
(* review_pr (src/main.py): the summary and the rendered recommendation.   *)
(***************************************************************************)
RECURSIVE SumFn(_, _)
SumFn(f, S) ==
    IF S = {} THEN 0
    ELSE LET x == CHOOSE y \in S : TRUE IN f[x] + SumFn(f, S \ {x})

\* IsFixable with a check counting as fixable unless it says otherwise.
IsFixable_by_default(result) == "fixable" \notin DOMAIN result \/ result.fixable

\* result.get('fixable', False)
IsFixable(result) == "fixable" \in DOMAIN result /\ result.fixable

\* `for check_group in all_checks: for check_name, result in ...` : the three
\* counters after the pass over all_checks
Summarize(all_checks) ==
    LET Count(Counts(_)) ==
            SumSeq([g \in 1..Len(all_checks) |->
                SumFn([c \in DOMAIN all_checks[g] |->
                          IF all_checks[g][c].issues > 0 /\ Counts(all_checks[g][c])
                          THEN all_checks[g][c].issues ELSE 0],
                      DOMAIN all_checks[g])])
        Every(result) == TRUE
        Blocking(result) == result.status = "fail"
    IN  [total_issues    |-> Count(Every),
         fixable_issues  |-> Count(IsFixable),
         blocking_issues |-> Count(Blocking)]

\* "Recommendations" of the human-readable output
Recommendation(summary) ==
    IF summary.blocking_issues > 0 THEN "blocking issues must be resolved before merge"
    ELSE IF summary.total_issues > 0 THEN "minor issues"
    ELSE "looks good to merge"

\* A dict without keys
EmptyDict == [key \in {} |-> <<>>]

\* The body of review_pr after the file list was obtained: review_results
\* gets one key per analyzer that ran, all_checks their reports in the
\* order code, security, performance, accessibility.
Review(changed_files, flags, runs) ==
    LET enabled == <<TRUE, flags.security, flags.performance, flags.accessibility>>
        report == <<Code_analyze_pr_files(changed_files, runs),
                    IF flags.security
                    THEN Security_analyze_pr_files(changed_files) ELSE EmptyDict,
                    IF flags.performance
                    THEN Performance_analyze_pr_files(changed_files) ELSE EmptyDict,
                    IF flags.accessibility
                    THEN Accessibility_analyze_pr_files(changed_files) ELSE EmptyDict>>
        key == <<"checks", "security", "performance", "accessibility">>
        ran == {g \in 1..4 : enabled[g]}
        all_checks == Flatten([g \in 1..4 |-> IF enabled[g] THEN <<report[g]>> ELSE <<>>])
    IN  [k \in {"pr_number", "files_changed", "summary"} \cup {key[g] : g \in ran} |->
            CASE k = "pr_number"     -> 1
              [] k = "files_changed" -> Len(changed_files)
              [] k = "summary"       -> Summarize(all_checks)
              [] OTHER               -> report[CHOOSE g \in ran : key[g] = k]]

\* review_pr without the early return on an empty list of files.
review_pr_reviewing_no_files(config, files, flags, runs) ==
    IF ~config
    THEN [kind |-> "error", flags |-> flags, files |-> files,
          message |-> "Please set GITHUB_TOKEN and GITHUB_REPO in .env file"]
    ELSE IF ~files.ok
    THEN [kind |-> "error", flags |-> flags, files |-> files,
          message |-> "Failed to get PR files"]
    ELSE LET review_results == Review(files.filenames, flags, runs)
         IN  [kind |-> "report", flags |-> flags, files |-> files, runs |-> runs,
              review_results |-> review_results,
              recommendation |-> IF flags.output_json THEN "none"
                                 ELSE Recommendation(review_results.summary)]

\* review_pr going on with an empty list when the list cannot be obtained.
review_pr_reviewing_after_failure(config, files, flags, runs) ==
    IF ~config
    THEN [kind |-> "error", flags |-> flags, files |-> files,
          message |-> "Please set GITHUB_TOKEN and GITHUB_REPO in .env file"]
    ELSE IF files.ok /\ files.filenames = <<>>
    THEN [kind |-> "no_files", flags |-> flags, files |-> files,
          message |-> "No files changed in PR"]
    ELSE LET review_results == Review(files.filenames, flags, runs)
         IN  [kind |-> "report", flags |-> flags, files |-> files, runs |-> runs,
              review_results |-> review_results,
              recommendation |-> IF flags.output_json THEN "none"
                                 ELSE Recommendation(review_results.summary)]

\* The whole command: what it leaves behind and what it prints
review_pr(config, files, flags, runs) ==
    IF ~config
    THEN [kind |-> "error", flags |-> flags, files |-> files,
          message |-> "Please set GITHUB_TOKEN and GITHUB_REPO in .env file"]
    ELSE IF ~files.ok
    THEN [kind |-> "error", flags |-> flags, files |-> files,
          message |-> "Failed to get PR files"]
    ELSE IF files.filenames = <<>>
    THEN [kind |-> "no_files", flags |-> flags, files |-> files,
          message |-> "No files changed in PR"]
    ELSE LET review_results == Review(files.filenames, flags, runs)
         IN  [kind |-> "report", flags |-> flags, files |-> files, runs |-> runs,
              review_results |-> review_results,
              recommendation |-> IF flags.output_json THEN "none"
                                 ELSE Recommendation(review_results.summary)]

----------------------------------------------------------------------------
(***************************************************************************)
(* The inputs of the commands.                                             *)
(***************************************************************************)
\* The changed-file lists handed to the analyzers
FileLists == UNION {[1..n -> Paths] : n \in 0..MaxFiles}

\* Outcomes of npx prettier --check
PrettierRuns ==
    {Raises,
     Exit(0, <<"Checking formatting...">>),
     Exit(1, <<"Checking formatting...", "[warn] src/util.ts",
               "[warn] Code style issues found">>),
     Exit(1, <<>>)}

\* Outcomes of npx eslint --format json
LintRaises == [raises |-> TRUE, returncode |-> 0, stdout |-> NoOutput]
LintExit(code, stdout) == [raises |-> FALSE, returncode |-> code, stdout |-> stdout]

EslintRuns ==
    {LintRaises,
     LintExit(2, NoOutput),
     LintExit(0, Json(<<LintFile("src/util.ts", 0, 0)>>)),
     LintExit(1, Json(<<LintFile("src/util.ts", 2, 1), LintFile("src/App.tsx", 0, 1)>>)),
     LintExit(0, Json(<<LintFile("src/util.ts", 0, 1)>>))}

\* Outcomes of npx tsc --noEmit
TscRuns ==
    {Raises,
     Exit(0, <<>>),
     Exit(2, <<"a.ts(1,1): error TS2322", "  Type 'string' is not assignable">>),
     Exit(1, <<>>)}

\* The three tools run one after the other and none reads what another
\* wrote: the outcomes of one tool are combined with a quiet run of the
\* other two.
QuietRuns == [prettier |-> Exit(0, <<"Checking formatting...">>),
              eslint   |-> LintExit(0, Json(<<LintFile("src/util.ts", 0, 0)>>)),
              tsc      |-> Exit(0, <<>>)]

ToolRuns ==
    {[QuietRuns EXCEPT !.prettier = r] : r \in PrettierRuns}
    \cup {[QuietRuns EXCEPT !.eslint = r] : r \in EslintRuns}
    \cup {[QuietRuns EXCEPT !.tsc = r] : r \in TscRuns}

\* The review command calls the same CodeAnalyzer: its tools are followed
\* through the outcomes of the first of them, the other two staying quiet.
ReviewRuns == {[QuietRuns EXCEPT !.prettier = r] : r \in PrettierRuns}

\* Outcomes of GitHubClient.get_pr_files: it raises, or returns the list
PrFiles ==
    {[ok |-> FALSE, filenames |-> <<>>]}
    \cup {[ok |-> TRUE, filenames |-> l] : l \in FileLists}

ReviewFlags ==
    [security : BOOLEAN, performance : BOOLEAN, accessibility : BOOLEAN,
     output_json : BOOLEAN]

----------------------------------------------------------------------------
(***************************************************************************)
(* LinearClient (src/integrations/linear_client.py).  A request to the    *)
(* Linear API is an input of the model: client.post raises, or it returns *)
(* a response with a status code and a JSON body.  The methods are         *)
(* decorated with @retry(stop=stop_after_attempt(3), wait=wait_fixed(2)):  *)
(* the body runs again when it raised, and the call raises RetryError when *)
(* the last attempt raised as well.                                        *)
(***************************************************************************)
PostRaises == [kind |-> "raises"]
Response(status_code, data) ==
    [kind |-> "response", status_code |-> status_code, data |-> data]

Raised(error) == [raised |-> TRUE, error |-> error]
Returned(value) == [raised |-> FALSE, value |-> value]

stop_after_attempt == 3

\* A call that hands on what its first attempt gives
Retry_without_retrying(outcomes) == SetKey(outcomes[1], "attempts", 1)

\* @retry(stop=stop_after_attempt(3), ...): outcomes[k] is what attempt k
\* gives if it is made
Retry(outcomes) ==
    LET done == FirstIn({k \in 1..stop_after_attempt : ~outcomes[k].raised})
    IN  IF done # 0
        THEN SetKey(outcomes[done], "attempts", done)
        ELSE [raised |-> TRUE, error |-> "RetryError", attempts |-> stop_after_attempt]

\* JSON null
Null == "<null>"

\* LinearTask(...) of one node of the response
LinearTask(issue) ==
    [id          |-> issue.id,
     identifier  |-> issue.identifier,
     title       |-> issue.title,
     description |-> IF issue.description \in {Null, ""} THEN "" ELSE issue.description,
     state       |-> issue.state.name,
     labels      |-> [i \in 1..Len(issue.labels.nodes) |-> issue.labels.nodes[i].name]]

\* One run of the body of get_ready_tasks
get_ready_tasks_attempt(response) ==
    IF response.kind = "raises"
    THEN Raised("Unexpected error")
    ELSE IF response.status_code # 200
    THEN Raised("HTTPStatusError")
    ELSE LET data == response.data
         IN  IF "errors" \in DOMAIN data
             THEN Raised("GraphQL query failed")
             ELSE IF "data" \notin DOMAIN data \/ "issues" \notin DOMAIN data.data
             THEN Raised("Unexpected Linear API response structure")
             ELSE LET issues == data.data.issues.nodes
                  IN  Returned([i \in 1..Len(issues) |-> LinearTask(issues[i])])

\* LinearClient.get_ready_tasks: responses[k] is the answer to the request
\* of attempt k
get_ready_tasks(responses) ==
    Retry([k \in 1..stop_after_attempt |-> get_ready_tasks_attempt(responses[k])])

\* One run of the body of update_task; r holds the answers to its three
\* requests (workflow states, issueUpdate, commentCreate)
update_task_attempt(state_name, r) ==
    IF r.states.kind = "raises" \/ r.states.status_code # 200
    THEN Raised("states request failed")
    ELSE LET states == r.states.data.data.workflowStates.nodes
             found == FirstIn({k \in 1..Len(states) : states[k].name = state_name})
         IN  IF found = 0 \/ states[found].id = ""
             THEN Raised("State not found")
             ELSE IF r.update.kind = "raises"
             THEN Raised("update request failed")
             ELSE IF r.update.status_code # 200
             THEN Raised("Failed to update task state: HTTP")
             ELSE IF "errors" \in DOMAIN r.update.data
             THEN Raised("Failed to update task state: errors")
             ELSE IF ~(/\ "data" \in DOMAIN r.update.data
                       /\ "issueUpdate" \in DOMAIN r.update.data.data
                       /\ "success" \in DOMAIN r.update.data.data.issueUpdate
                       /\ r.update.data.data.issueUpdate.success)
             THEN Raised("Failed to update task state")
             ELSE IF r.comment.kind = "raises"
             THEN Raised("comment request failed")
             ELSE Returned(TRUE)

\* The requests one run of the body of update_task posts, in order, each
\* with whether the body went on after it
update_task_posts(state_name, r) ==
    LET states_ok == r.states.kind = "response" /\ r.states.status_code = 200
        states == r.states.data.data.workflowStates.nodes
        found == IF states_ok
                 THEN FirstIn({k \in 1..Len(states) : states[k].name = state_name})
                 ELSE 0
        update_ok == /\ r.update.kind = "response"
                     /\ r.update.status_code = 200
                     /\ "errors" \notin DOMAIN r.update.data
                     /\ "data" \in DOMAIN r.update.data
                     /\ "issueUpdate" \in DOMAIN r.update.data.data
                     /\ "success" \in DOMAIN r.update.data.data.issueUpdate
                     /\ r.update.data.data.issueUpdate.success
    IN  <<[request |-> "workflowStates", succeeded |-> states_ok]>>
        \o (IF found # 0 /\ states[found].id # ""
            THEN <<[request |-> "issueUpdate", succeeded |-> update_ok]>>
                 \o (IF update_ok
                     THEN <<[request |-> "commentCreate",
                             succeeded |-> r.comment.kind = "response"]>>
                     ELSE <<>>)
            ELSE <<>>)

\* LinearClient.update_task
update_task(state_name, requests) ==
    Retry([k \in 1..stop_after_attempt |-> update_task_attempt(state_name, requests[k])])

----------------------------------------------------------------------------
(***************************************************************************)
(* GitHubClient.create_or_update_file (src/integrations/github_client.py). *)
(* The branch holds a file at the path or it does not.  get_contents       *)
(* raises when it holds none; create_file is rejected by GitHub when it    *)
(* holds one, as no sha is passed.  Besides, every request can fail for a  *)
(* reason of its own (env.get_fails, env.update_fails, env.create_fails).  *)
(***************************************************************************)
Absent == [exists |-> FALSE, sha |-> ""]
Present(sha) == [exists |-> TRUE, sha |-> sha]

CreateFile(path, message, content, branch) ==
    [op |-> "create_file", path |-> path, message |-> message, content |-> content,
     branch |-> branch]

\* create_or_update_file creating the file whatever the branch holds.
create_or_update_file_always_creating(path, content, message, branch, env) ==
    IF ~env.init_ok
    THEN [raised |-> TRUE, error |-> "get_repo", calls |-> <<>>]
    ELSE IF ~env.remote.exists /\ ~env.create_fails
    THEN [raised |-> FALSE, value |-> TRUE,
          calls |-> <<CreateFile(path, message, content, branch)>>]
    ELSE [raised |-> FALSE, value |-> FALSE,
          calls |-> <<CreateFile(path, message, content, branch)>>]

\* GitHubClient.create_or_update_file; calls lists the requests made on
\* self.repo, in order
create_or_update_file(path, content, message, branch, env) ==
    IF ~env.init_ok
    THEN [raised |-> TRUE, error |-> "get_repo", calls |-> <<>>]
    ELSE LET get == [op |-> "get_contents", path |-> path, ref |-> branch]
             update == [op |-> "update_file", path |-> path, message |-> message,
                        content |-> content, sha |-> env.remote.sha, branch |-> branch]
             create == CreateFile(path, message, content, branch)
             got == env.remote.exists /\ ~env.get_fails
         IN  IF got /\ ~env.update_fails
             THEN [raised |-> FALSE, value |-> TRUE, calls |-> <<get, update>>]
             ELSE LET calls == IF got THEN <<get, update, create>> ELSE <<get, create>>
                  IN  IF ~env.remote.exists /\ ~env.create_fails
                      THEN [raised |-> FALSE, value |-> TRUE, calls |-> calls]
                      ELSE [raised |-> FALSE, value |-> FALSE, calls |-> calls]

(***************************************************************************)
(* The answers of the Linear API and the state of the GitHub branch.       *)
(***************************************************************************)
Issue(identifier, description, labels) ==
    [id |-> identifier, identifier |-> identifier, title |-> "w",
     description |-> description, state |-> [name |-> "Ready for Dev"],
     labels |-> [nodes |-> [i \in 1..Len(labels) |-> [name |-> labels[i]]]]]

\* Answers to the request of get_ready_tasks
ReadyResponses ==
    {PostRaises,
     Response(500, [message |-> "w"]),
     Response(200, [errors |-> <<"w">>]),
     Response(200, [data |-> [viewer |-> "w"]]),
     Response(200, [data |-> [issues |-> [nodes |-> <<>>]]]),
     Response(200, [data |-> [issues |-> [nodes |->
         <<Issue("KEY-1", "w", <<"bug">>), Issue("KEY-2", Null, <<>>)>>]]])}

WorkflowStates ==
    Response(200, [data |-> [workflowStates |-> [nodes |->
        <<[id |-> "state-1", name |-> "Ready for Dev"],
          [id |-> "state-2", name |-> "In Progress"]>>]]])

UpdateOk == Response(200, [data |-> [issueUpdate |-> [success |-> TRUE]]])
CommentOk == Response(200, [data |-> [commentCreate |-> [success |-> TRUE]]])

\* The answers to the three requests of one attempt of update_task: all
\* three as wished, or one of them otherwise
SmoothRequests == [states |-> WorkflowStates, update |-> UpdateOk, comment |-> CommentOk]

UpdateRequests ==
    {[SmoothRequests EXCEPT !.states = r] : r \in {WorkflowStates, PostRaises,
                                                   Response(500, [message |-> "w"])}}
    \cup {[SmoothRequests EXCEPT !.update = r] :
             r \in {PostRaises, Response(500, [message |-> "w"]),
                    Response(200, [errors |-> <<"w">>]),
                    Response(200, [data |-> [issueUpdate |-> [success |-> FALSE]]])}}
    \cup {[SmoothRequests EXCEPT !.comment = r] :
             r \in {PostRaises, Response(500, [message |-> "w"]),
                    Response(200, [errors |-> <<"w">>])}}

StateNames == {"In Progress", "Invalid State"}

\* What create_or_update_file meets: the repository object, the branch, and
\* the requests that fail for a reason of their own
GitHubEnvs ==
    [init_ok : BOOLEAN, remote : {Absent, Present("file_sha")},
     get_fails : BOOLEAN, update_fails : BOOLEAN, create_fails : BOOLEAN]

----------------------------------------------------------------------------
(***************************************************************************)
(* A rule that raises.  CodeAnalyzer's rules each catch what they raise;   *)
(* the other analyzers run their rules one after the other inside one try  *)
(* block and fill the results of the file as they go.                      *)
(***************************************************************************)
Code_rules == <<"console_logs", "complexity", "todos", "long_lines", "large_functions">>

Security_rules == <<"hardcoded_secrets", "sql_injection", "xss_vulnerabilities",
                    "unsafe_regex", "exposed_api_keys", "insecure_random",
                    "eval_usage", "cors_issues">>

Performance_rules == <<"unnecessary_rerenders", "missing_memoization",
                       "large_bundle_imports", "inefficient_loops", "missing_keys",
                       "sync_operations", "memory_leaks", "unoptimized_images">>

Accessibility_rules == <<"missing_alt_text", "missing_aria_labels", "missing_form_labels",
                         "color_contrast", "interactive_elements", "heading_hierarchy",
                         "focus_management", "semantic_html">>

\* The extensions an analyzer accepts
ExtensionsOf(analyzer) ==
    CASE analyzer = "code"          -> Code_extensions
      [] analyzer = "security"      -> Security_extensions
      [] analyzer = "performance"   -> Performance_extensions
      [] analyzer = "accessibility" -> Accessibility_extensions

RulesOf(analyzer) ==
    CASE analyzer = "code"          -> Code_rules
      [] analyzer = "security"      -> Security_rules
      [] analyzer = "performance"   -> Performance_rules
      [] analyzer = "accessibility" -> Accessibility_rules

\* What the per-file method of an analyzer returns for a file when the rule
\* `failing` raises as it starts; results is what it returns when no rule
\* raises.
analyze_file_with_raising_rule(analyzer, results, failing) ==
    IF analyzer = "code"
    THEN [results EXCEPT ![failing] =
             IF "details" \in DOMAIN @ THEN DetailResult(<<>>) ELSE Result(<<>>)]
    ELSE LET rules == RulesOf(analyzer)
             at == FirstIn({k \in 1..Len(rules) : rules[k] = failing})
         IN  [check \in {rules[k] : k \in 1..(at - 1)} |-> results[check]]

----------------------------------------------------------------------------
(***************************************************************************)
(* Texts handed to one rule.                                               *)
(***************************************************************************)
Levels == 1..6

HeadingTag(level) ==
    CASE level = 1 -> "<h1" [] level = 2 -> "<h2" [] level = 3 -> "<h3"
      [] level = 4 -> "<h4" [] level = 5 -> "<h5" [] level = 6 -> "<h6"

HeadingSequences == UNION {[1..n -> Levels] : n \in 0..MaxHeadings}

\* A page with one heading per line, in the order of the levels
HeadingDocument(levels) ==
    File([k \in 1..Len(levels) |-> <<Sp, HeadingTag(levels[k]), ">", "w">>], TRUE)

\* The blocks a source file handed to _check_function_size is made of
Body(n) == Repeat(<<Sp, "w">>, n)
Declaration == <<"function", Sp, "w", "(", ")", Sp, "{">>

Block(kind) ==
    CASE kind = "big"    -> <<Declaration>> \o Body(49) \o << <<"}">> >>
      [] kind = "fit"    -> <<Declaration>> \o Body(48) \o << <<"}">> >>
      [] kind = "inline" -> << Declaration \o <<Sp, "w", Sp, "}">> >>
      [] kind = "table"  -> << <<"w", Sp, "=", Sp, "{">> >> \o Body(50) \o << <<"}">> >>
      [] kind = "nested" -> <<Declaration, <<Sp>> \o Declaration>> \o Body(49)
                            \o << <<Sp, "}">>, <<"}">> >>
      [] kind = "open"   -> <<Declaration>> \o Body(2)

BlockKinds == {"big", "fit", "inline", "table", "nested", "open"}

BlockLists == UNION {[1..n -> BlockKinds] : n \in 1..MaxBlocks}

SourceFile(blocks) == File(Flatten([k \in 1..Len(blocks) |-> Block(blocks[k])]), TRUE)

\* The lines a style sheet handed to _check_focus_management is made of
StyleLine(kind) ==
    CASE kind = "outline" -> <<Sp, "outline: none">>
      [] kind = "style"   -> <<".w", ":focus", Sp, "{">>
      [] kind = "bare"    -> <<":focus">>
      [] kind = "filler"  -> <<"w">>

StyleLineKinds == {"outline", "style", "bare", "filler"}

StyleSheets == UNION {[1..n -> StyleLineKinds] : n \in 1..MaxStyleLines}

StyleSheet(kinds) == [k \in 1..Len(kinds) |-> StyleLine(kinds[k])]

----------------------------------------------------------------------------
(***************************************************************************)
(* The state machine.                                                      *)
(***************************************************************************)
\* No command writes to the working tree, so what a per-file method returns
\* for a file is the same at every call: it is computed from the file once.
Init ==
    /\ scans = [code          |-> [file \in Paths |-> Code_analyze_file(Repo[file])],
                security      |-> [file \in Paths |-> Security_analyze_file(Repo[file])],
                performance   |-> [file \in Paths |-> Performance_analyze_file(Repo[file])],
                accessibility |-> [file \in Paths |-> Accessibility_analyze_file(Repo[file])]]
    /\ call1 = None
    /\ call2 = None
    /\ review = None
    /\ client = None
    /\ rule = None

Idle == call1 = None /\ review = None /\ client = None /\ rule = None

Call(analyzer, changed_files, report) ==
    [kind |-> "call", analyzer |-> analyzer, changed_files |-> changed_files,
     report |-> report]

\* CodeAnalyzer().analyze_pr_files(changed_files)
CodeAnalyze ==
    /\ Idle
    /\ \E changed_files \in FileLists, runs \in ToolRuns :
          call1' = SetKey(Call("code", changed_files,
                               Code_analyze_pr_files(changed_files, runs)),
                          "runs", runs)
    /\ UNCHANGED <<scans, call2, review, client, rule>>

\* SecurityAnalyzer().analyze_pr_files(changed_files)
SecurityAnalyze ==
    /\ Idle
    /\ \E changed_files \in FileLists :
          call1' = Call("security", changed_files, Security_analyze_pr_files(changed_files))
    /\ UNCHANGED <<scans, call2, review, client, rule>>

\* PerformanceAnalyzer().analyze_pr_files(changed_files)
PerformanceAnalyze ==
    /\ Idle
    /\ \E changed_files \in FileLists :
          call1' = Call("performance", changed_files,
                        Performance_analyze_pr_files(changed_files))
    /\ UNCHANGED <<scans, call2, review, client, rule>>

\* AccessibilityAnalyzer().analyze_pr_files(changed_files)
AccessibilityAnalyze ==
    /\ Idle
    /\ \E changed_files \in FileLists :
          call1' = Call("accessibility", changed_files,
                        Accessibility_analyze_pr_files(changed_files))
    /\ UNCHANGED <<scans, call2, review, client, rule>>

\* analyze_pr_files of the analyzer of a call, on its arguments
ReportOf(call) ==
    CASE call.analyzer = "code" -> Code_analyze_pr_files(call.changed_files, call.runs)
      [] call.analyzer = "security" -> Security_analyze_pr_files(call.changed_files)
      [] call.analyzer = "performance" -> Performance_analyze_pr_files(call.changed_files)
      [] call.analyzer = "accessibility" -> Accessibility_analyze_pr_files(call.changed_files)

\* The same analyzer object is called a second time with the same list, the
\* working tree and the outcome of the tools being unchanged
AnalyzeAgain ==
    /\ call1 # None
    /\ call2 = None
    /\ call2' = [call1 EXCEPT !.report = ReportOf(call1)]
    /\ UNCHANGED <<scans, call1, review, client, rule>>

\* The command `pr review <pr_number>`
ReviewPr ==
    /\ Idle
    /\ \E config \in BOOLEAN, files \in PrFiles, flags \in ReviewFlags, runs \in ReviewRuns :
          review' = review_pr(config, files, flags, runs)
    /\ UNCHANGED <<scans, call1, call2, client, rule>>

\* LinearClient.get_ready_tasks()
GetReadyTasks ==
    /\ Idle
    /\ \E responses \in [1..stop_after_attempt -> ReadyResponses] :
          client' = [op |-> "get_ready_tasks", responses |-> responses,
                     outcome |-> get_ready_tasks(responses)]
    /\ UNCHANGED <<scans, call1, call2, review, rule>>

\* LinearClient.update_task(task_id, state_name, comment)
UpdateTask ==
    /\ Idle
    /\ \E state_name \in StateNames, requests \in [1..stop_after_attempt -> UpdateRequests] :
          client' = [op |-> "update_task", state_name |-> state_name,
                     requests |-> requests,
                     outcome |-> update_task(state_name, requests),
                     posts |-> [k \in 1..update_task(state_name, requests).attempts |->
                                   update_task_posts(state_name, requests[k])]]
    /\ UNCHANGED <<scans, call1, call2, review, rule>>

\* GitHubClient.create_or_update_file(path, content, message, branch)
CreateOrUpdateFile ==
    /\ Idle
    /\ \E env \in GitHubEnvs :
          client' = [op |-> "create_or_update_file", env |-> env,
                     outcome |-> create_or_update_file("w.md", "w", "Add w",
                                                       "feature/test", env)]
    /\ UNCHANGED <<scans, call1, call2, review, rule>>

\* AccessibilityAnalyzer()._check_heading_hierarchy(content)
CheckHeadingHierarchy ==
    /\ Idle
    /\ \E levels \in HeadingSequences :
          rule' = [op |-> "heading_hierarchy", levels |-> levels,
                   outcome |-> _check_heading_hierarchy(Content(HeadingDocument(levels)))]
    /\ UNCHANGED <<scans, call1, call2, review, client>>

\* CodeAnalyzer()._check_function_size(file_path)
CheckFunctionSize ==
    /\ Idle
    /\ \E blocks \in BlockLists :
          rule' = [op |-> "function_size", blocks |-> blocks,
                   outcome |-> _check_function_size(SourceFile(blocks))]
    /\ UNCHANGED <<scans, call1, call2, review, client>>

\* AccessibilityAnalyzer()._check_focus_management(lines)
CheckFocusManagement ==
    /\ Idle
    /\ \E kinds \in StyleSheets :
          rule' = [op |-> "focus_management", kinds |-> kinds,
                   outcome |-> _check_focus_management(StyleSheet(kinds))]
    /\ UNCHANGED <<scans, call1, call2, review, client>>

\* The per-file method of an analyzer on a file it reads, one of its rules
\* raising
AnalyzeFileWithRaisingRule ==
    /\ Idle
    /\ \E analyzer \in DOMAIN scans, file \in Paths :
          /\ Suffix(file) \in ExtensionsOf(analyzer)
          /\ Repo[file].exists /\ Repo[file].readable
          /\ \E k \in 1..Len(RulesOf(analyzer)) :
                rule' = [op |-> "analyze_file", analyzer |-> analyzer, file |-> file,
                         failing |-> RulesOf(analyzer)[k],
                         outcome |-> analyze_file_with_raising_rule(
                                         analyzer, scans[analyzer][file],
                                         RulesOf(analyzer)[k])]
    /\ UNCHANGED <<scans, call1, call2, review, client>>

\* _check_function_size is entered on a file: i = 0, large_functions = [].
\* What an iteration does depends on the lines and on i only: body[i] holds
\* the index after the iteration at line i and what it appends.
StartFunctionSizeScan ==
    /\ Idle
    /\ \E blocks \in BlockLists :
          LET lines == FileLines(SourceFile(blocks))
          IN  rule' = [op |-> "function_size_scan", blocks |-> blocks,
                       i |-> 1, large_functions |-> <<>>,
                       body |-> [i \in 1..Len(lines) |->
                                    function_size_iteration(lines, i, <<>>)]]
    /\ UNCHANGED <<scans, call1, call2, review, client>>

\* One iteration of its outer loop, taken while i < len(lines)
FunctionSizeIteration ==
    /\ rule # None /\ rule.op = "function_size_scan"
    /\ rule.i \in DOMAIN rule.body
    /\ rule' = [rule EXCEPT !.i = rule.body[rule.i].i,
                            !.large_functions = @ \o rule.body[rule.i].large_functions]
    /\ UNCHANGED <<scans, call1, call2, review, client>>

Next ==
    \/ CodeAnalyze
    \/ SecurityAnalyze
    \/ PerformanceAnalyze
    \/ AccessibilityAnalyze
    \/ AnalyzeAgain
    \/ ReviewPr
    \/ GetReadyTasks
    \/ UpdateTask
    \/ CreateOrUpdateFile
    \/ CheckHeadingHierarchy
    \/ CheckFunctionSize
    \/ CheckFocusManagement
    \/ AnalyzeFileWithRaisingRule
    \/ StartFunctionSizeScan
    \/ FunctionSizeIteration

Spec == Init /\ [][Next]_vars

\* A loop that is entered runs on: the interpreter takes the next iteration
\* as long as the loop condition holds.
FairSpec == Spec /\ WF_vars(FunctionSizeIteration)

----------------------------------------------------------------------------
(***************************************************************************)
(* Properties.  They are stated over the reports the state holds: those of *)
(* the direct calls and those inside the outcome of review_pr.             *)
(***************************************************************************)
CategoryKeys == {"checks", "security", "performance", "accessibility"}

AnalyzerOf(key) == IF key = "checks" THEN "code" ELSE key

\* Every report in the state, with the analyzer that made it, the list it
\* was made from and the tool outcomes of that run
StateReports ==
    {[analyzer |-> c.analyzer, changed_files |-> c.changed_files,
      runs |-> IF "runs" \in DOMAIN c THEN c.runs ELSE QuietRuns,
      report |-> c.report] : c \in {c \in {call1, call2} : c # None}}
    \cup (IF review.kind = "report"
          THEN {[analyzer |-> AnalyzerOf(key), changed_files |-> review.files.filenames,
                 runs |-> review.runs,
                 report |-> review.review_results[key]] :
                   key \in DOMAIN review.review_results \cap CategoryKeys}
          ELSE {})

\* The files of a list the analyzer reads: accepted extension, present in
\* the working tree, readable
ScannedFiles(x) ==
    {x.changed_files[k] : k \in 1..Len(x.changed_files)}
    \cap {file \in Paths : /\ Suffix(file) \in ExtensionsOf(x.analyzer)
                          /\ Repo[file].exists /\ Repo[file].readable}

\* The lines an analyzer sees in a file (the security analyzer splits the
\* content, the code analyzer iterates over the file)
LinesSeen(x, file) ==
    IF x.analyzer = "code" THEN FileLines(Repo[file]) ELSE SplitLines(Repo[file])

\* One unit per counted issue of the checks of the given categories that
\* satisfy Which: the cardinality is the sum of their issue counts.
IssueUnits(review_results, categories, Which(_)) ==
    UNION {{<<key, check, n>> : n \in 1..review_results[key][check].issues} :
              <<key, check>> \in {kc \in categories \X UNION {DOMAIN review_results[key] :
                                                                 key \in categories} :
                                     /\ kc[2] \in DOMAIN review_results[kc[1]]
                                     /\ Which(review_results[kc[1]][kc[2]])}}

EvidenceMatches(result) ==
    /\ "locations" \in DOMAIN result => result.issues = Len(result.locations)
    /\ "details" \in DOMAIN result => result.issues = Len(result.details)

\* C1 as stated: in every report of every analyzer, every check that has a
\* locations list or a details list (linting and type_checking included)
\* reports as many issues as the list has entries.
C1_EveryCountMatchesItsList ==
    \A x \in StateReports : \A check \in DOMAIN x.report :
        EvidenceMatches(x.report[check])

\* C1, amended: the count equals the length of the evidence list for every
\* check except linting and type_checking; linting lists one entry per file
\* with errors, so never more entries than issues, and type_checking lists
\* at most the first ten lines of the compiler's output.
C1_CountsMatchListsButForTools ==
    \A x \in StateReports :
        /\ \A check \in DOMAIN x.report \ {"linting", "type_checking"} :
               EvidenceMatches(x.report[check])
        /\ x.analyzer = "code" =>
               /\ Len(x.report.linting.details) <= x.report.linting.issues
               /\ Len(x.report.type_checking.details) <= tsc_details_limit

C1_Witness ==
    \E x \in StateReports :
        /\ x.analyzer = "code"
        /\ x.report.console_logs.issues = 1 /\ Len(x.report.console_logs.locations) = 1
        /\ x.report.complexity.issues = 1 /\ Len(x.report.complexity.details) = 1
        /\ x.report.linting.issues = 2 /\ Len(x.report.linting.details) = 1

\* C2 as stated: in every report a check's status is pass exactly when its
\* issue count is 0.
C2_PassIffNoIssues ==
    \A x \in StateReports : \A check \in DOMAIN x.report :
        (x.report[check].status = "pass") <=> (x.report[check].issues = 0)

\* A line in which the text eval( occurs
ContainsEvalParen(line) ==
    \E i \in 1..Len(line) : line[i] = "eval" /\ At(line, i + 1) = "("

\* A line in which eval( occurs with eval not the tail of a longer name
CallsEval(line) ==
    \E i \in 1..Len(line) :
        line[i] = "eval" /\ At(line, i + 1) = "(" /\ ~EndsWord(At(line, i - 1))

\* A line that assigns a quoted literal to password, with no ${ after the
\* quote and no process.env right behind it
AssignsPasswordLiteral(line) ==
    \E i \in 1..Len(line) :
        LET a == SkipWs(line, i + 1)
            q == SkipWs(line, a + 1)
        IN  /\ line[i] = "password"
            /\ At(line, a) \in {":", "="}
            /\ At(line, q) \in Quotes
            /\ At(line, q + 1) # "process.env"
            /\ \A k \in (q + 1)..Len(line) : line[k] # "${"

\* A line that refers to an accessor of the environment
RefersToEnv(line) == In("process.env", line) \/ In("import.meta.env", line)

SecuritySeverity(x) ==
    \A check \in DOMAIN x.report :
        x.report[check].issues > 0 =>
            x.report[check].status =
                IF check \in {"hardcoded_secrets", "sql_injection", "eval_usage"}
                THEN "fail" ELSE "warning"

\* C3 as stated: in a security report every check with issues is fail when
\* it is hardcoded_secrets, sql_injection or eval_usage and warning
\* otherwise; a scanned file with a line containing eval( makes eval_usage
\* fail, and one with a line assigning a quoted literal to password makes
\* hardcoded_secrets fail.
C3_AnyEvalOrPasswordLineFails ==
    \A x \in StateReports :
        x.analyzer = "security" =>
            /\ SecuritySeverity(x)
            /\ \A file \in ScannedFiles(x) :
                 \A n \in 1..Len(LinesSeen(x, file)) :
                     /\ ContainsEvalParen(LinesSeen(x, file)[n])
                            => x.report.eval_usage.status = "fail"
                     /\ AssignsPasswordLiteral(LinesSeen(x, file)[n])
                            => x.report.hardcoded_secrets.status = "fail"

\* C3, amended: the severities are as stated; a scanned file makes
\* eval_usage fail when a line calls eval (the word eval, not the tail of a
\* longer name, followed by a parenthesis), and makes hardcoded_secrets fail
\* when a line that is not a comment line and does not refer to the
\* environment assigns a quoted literal to password.
C3_EvalCallOrPasswordOutsideCommentFails ==
    \A x \in StateReports :
        x.analyzer = "security" =>
            /\ SecuritySeverity(x)
            /\ \A file \in ScannedFiles(x) :
                 \A n \in 1..Len(LinesSeen(x, file)) :
                     LET line == LinesSeen(x, file)[n]
                     IN  /\ CallsEval(line) => x.report.eval_usage.status = "fail"
                         /\ (/\ AssignsPasswordLiteral(line)
                             /\ ~IsCommentLine(line)
                             /\ ~RefersToEnv(line))
                                => x.report.hardcoded_secrets.status = "fail"

C3_Witness ==
    \E x \in StateReports :
        /\ x.analyzer = "security"
        /\ "src/App.tsx" \in ScannedFiles(x) /\ "deploy.yml" \in ScannedFiles(x)
        /\ x.report.eval_usage.status = "fail" /\ x.report.eval_usage.issues = 1
        /\ x.report.hardcoded_secrets.status = "fail"
        /\ x.report.hardcoded_secrets.issues = 2
        /\ x.report.exposed_api_keys.status = "warning"

\* A line with a call console.log(
CallsConsoleLog(line) ==
    \E i \in 1..Len(line) : line[i] = "console.log" /\ At(line, i + 1) = "("

\* C4: in a code report every check with issues is fail when it is
\* console_logs or type_checking and warning otherwise, linting with errors
\* included; a line n of a scanned file that is not a comment line and calls
\* console.log( makes console_logs fail with a location "<file>:line n".
C4_CodeSeverityAndConsoleLogs ==
    \A x \in StateReports :
        x.analyzer = "code" =>
            /\ \A check \in DOMAIN x.report :
                   x.report[check].issues > 0 =>
                       x.report[check].status =
                           IF check \in {"console_logs", "type_checking"}
                           THEN "fail" ELSE "warning"
            /\ \A file \in ScannedFiles(x) :
                 \A n \in 1..Len(LinesSeen(x, file)) :
                     (CallsConsoleLog(LinesSeen(x, file)[n])
                        /\ ~IsCommentLine(LinesSeen(x, file)[n]))
                     => /\ x.report.console_logs.status = "fail"
                        /\ \E k \in 1..Len(x.report.console_logs.locations) :
                               /\ x.report.console_logs.locations[k].file = file
                               /\ x.report.console_logs.locations[k].line = n
                               /\ x.report.console_logs.locations[k].note = ""

C4_Witness ==
    \E x \in StateReports :
        /\ x.analyzer = "code"
        /\ "src/App.tsx" \in ScannedFiles(x)
        /\ x.report.console_logs.status = "fail"
        /\ x.report.console_logs.locations =
               <<[file |-> "src/App.tsx", line |-> 3, note |-> "", arg |-> 0]>>
        /\ x.report.linting.issues = 2 /\ x.report.linting.status = "warning"

\* C5: no check of a performance or accessibility report has status fail,
\* and the blocking issues of a review are those of the failing checks of
\* the code and security reports alone.
C5_PerformanceAndAccessibilityNeverFail ==
    /\ \A x \in StateReports :
           x.analyzer \in {"performance", "accessibility"} =>
               \A check \in DOMAIN x.report : x.report[check].status # "fail"
    /\ review.kind = "report" =>
           LET Fails(result) == result.status = "fail"
           IN  review.review_results.summary.blocking_issues =
                   Cardinality(IssueUnits(review.review_results,
                                          DOMAIN review.review_results
                                              \cap {"checks", "security"},
                                          Fails))

C5_Witness ==
    /\ review.kind = "report"
    /\ review.flags.performance /\ review.flags.accessibility
    /\ review.review_results.performance.inefficient_loops.status = "warning"
    /\ review.review_results.accessibility.missing_alt_text.status = "warning"
    /\ review.review_results.accessibility.missing_alt_text.issues = 1
    /\ review.review_results.summary.blocking_issues = 1
    /\ review.review_results.summary.total_issues > 4

FixedKeys(analyzer) ==
    CASE analyzer = "code" ->
             {"console_logs", "complexity", "todos", "formatting", "linting",
              "type_checking", "long_lines", "large_functions"}
      [] analyzer = "security" ->
             {"hardcoded_secrets", "sql_injection", "xss_vulnerabilities", "unsafe_regex",
              "exposed_api_keys", "insecure_random", "eval_usage", "cors_issues"}
      [] analyzer = "performance" ->
             {"unnecessary_rerenders", "missing_memoization", "large_bundle_imports",
              "inefficient_loops", "missing_keys", "sync_operations", "memory_leaks",
              "unoptimized_images"}
      [] analyzer = "accessibility" ->
             {"missing_alt_text", "missing_aria_labels", "missing_form_labels",
              "color_contrast", "interactive_elements", "heading_hierarchy",
              "focus_management", "semantic_html"}

\* C6 as stated: every report has exactly the eight keys of its category,
\* and every key with 0 issues has status pass and a message.
C6_FixedKeysAndPassAtZero ==
    \A x \in StateReports :
        /\ DOMAIN x.report = FixedKeys(x.analyzer)
        /\ \A check \in DOMAIN x.report :
               x.report[check].issues = 0 =>
                   /\ x.report[check].status = "pass"
                   /\ "message" \in DOMAIN x.report[check]

\* The list without the paths whose extension the analyzer does not accept
AcceptedOnly(x) ==
    LET Accepted(file) == Suffix(file) \in ExtensionsOf(x.analyzer)
    IN  SelectSeq(x.changed_files, Accepted)

\* C7: the report for a list equals the report for the list without the
\* paths whose extension is not in the category's accepted set.
C7_UnacceptedPathsLeaveNoTrace ==
    \A x \in StateReports :
        x.report = ReportOf([analyzer |-> x.analyzer, changed_files |-> AcceptedOnly(x),
                             runs |-> x.runs])

C7_Witness ==
    \E x \in StateReports :
        /\ x.analyzer = "code"
        /\ x.changed_files = <<"README.md", "src/App.tsx">>
        /\ x.report.console_logs.issues = 1
        /\ x.report.todos.issues = 0

EmptyListReturned ==
    /\ review # None
    /\ review.kind # "error"
    /\ review.files.ok /\ review.files.filenames = <<>>

\* C9 as stated: when get_pr_files returns an empty list, the command
\* produces a report with files_changed = 0 in which every check of every
\* category that ran has status pass and 0 issues.
C9_EmptyListGivesPassingReport ==
    EmptyListReturned =>
        /\ review.kind = "report"
        /\ review.review_results.files_changed = 0
        /\ \A x \in StateReports : \A check \in DOMAIN x.report :
               x.report[check].status = "pass" /\ x.report[check].issues = 0

\* C9, amended: when get_pr_files returns an empty list, the command prints
\* "No files changed in PR #<n>" and returns: no analyzer runs, there is no
\* report and no summary, and no error is reported.
C9_EmptyListGivesNoReport ==
    (review # None /\ review.kind # "error" /\ review.files.filenames = <<>>) =>
        /\ review.kind = "no_files"
        /\ review.message = "No files changed in PR"
        /\ "review_results" \notin DOMAIN review
        /\ "recommendation" \notin DOMAIN review

C9_Witness ==
    /\ review.kind = "no_files"
    /\ review.files.ok /\ review.files.filenames = <<>>
    /\ review.flags.security

\* C10: the report of a review has the key checks and the keys of the
\* requested categories only; total_issues is the sum of the issues of all
\* their checks, blocking_issues the sum over the checks with status fail,
\* fixable_issues the sum over the checks flagged fixable; both are at most
\* total_issues.
C10_SummaryCountsTheRunCategories ==
    review.kind = "report" =>
        LET review_results == review.review_results
            run == {"checks"} \cup {key \in {"security", "performance", "accessibility"} :
                                       review.flags[key]}
            All(result) == TRUE
            Fails(result) == result.status = "fail"
            Fixable(result) == "fixable" \in DOMAIN result /\ result.fixable
            summary == review_results.summary
        IN  /\ DOMAIN review_results = {"pr_number", "files_changed", "summary"} \cup run
            /\ summary.total_issues = Cardinality(IssueUnits(review_results, run, All))
            /\ summary.blocking_issues = Cardinality(IssueUnits(review_results, run, Fails))
            /\ summary.fixable_issues = Cardinality(IssueUnits(review_results, run, Fixable))
            /\ summary.blocking_issues <= summary.total_issues
            /\ summary.fixable_issues <= summary.total_issues

C10_Witness ==
    /\ review.kind = "report"
    /\ review.flags.security /\ ~review.flags.performance /\ ~review.flags.accessibility
    /\ DOMAIN review.review_results =
           {"pr_number", "files_changed", "summary", "checks", "security"}
    /\ review.review_results.summary.fixable_issues = 2
    /\ review.review_results.summary.blocking_issues = 3
    /\ review.review_results.summary.total_issues = 5


\* C11 as stated: in a rendered review, a check with status fail in a
\* category that ran makes the recommendation the merge-blocking message,
\* and the looks-good message is rendered only when no check of a category
\* that ran has status fail or warning.
C11_FailBlocksAndGoodMeansClean ==
    (review.kind = "report" /\ ~review.flags.output_json) =>
        LET statuses == {review.review_results[key][check].status :
                            <<key, check>> \in
                                {kc \in (DOMAIN review.review_results \cap CategoryKeys)
                                          \X UNION {DOMAIN review.review_results[key] :
                                                key \in DOMAIN review.review_results
                                                           \cap CategoryKeys} :
                                    kc[2] \in DOMAIN review.review_results[kc[1]]}}
        IN  /\ "fail" \in statuses
                => review.recommendation = "blocking issues must be resolved before merge"
            /\ review.recommendation = "looks good to merge"
                => statuses \cap {"fail", "warning"} = {}

\* The list without the paths that do not exist or cannot be read or decoded
ReadableOnly(x) ==
    LET Usable(file) == Repo[file].exists /\ Repo[file].readable
    IN  SelectSeq(x.changed_files, Usable)

\* C12 as stated: a listed file that does not exist, or cannot be read or
\* decoded, contributes nothing to any check and leaves the contributions of
\* the other files as they are: the report for a list is the report for the
\* list without these files.
C12_UnusableFilesContributeNothing ==
    \A x \in StateReports :
        x.report = ReportOf([analyzer |-> x.analyzer, changed_files |-> ReadableOnly(x),
                             runs |-> x.runs])

\* The check each external tool backs
ToolCheck == [prettier |-> "formatting", eslint |-> "linting", tsc |-> "type_checking"]

\* The outcomes a tool can have
RunsOf(tool) ==
    CASE tool = "prettier" -> PrettierRuns
      [] tool = "eslint"   -> EslintRuns
      [] tool = "tsc"      -> TscRuns

\* C13: when running the formatter, the linter or the compiler raises, its
\* check is in the code report with status pass and 0 issues, and the other
\* seven checks are what they are for any other outcome of that tool.
C13_RaisingToolPassesAndLeavesOthers ==
    \A x \in StateReports : \A tool \in DOMAIN ToolCheck :
        (x.analyzer = "code" /\ x.runs[tool].raises) =>
            /\ ToolCheck[tool] \in DOMAIN x.report
            /\ x.report[ToolCheck[tool]].status = "pass"
            /\ x.report[ToolCheck[tool]].issues = 0
            /\ \A r \in RunsOf(tool) :
                 \A check \in DOMAIN x.report \ {ToolCheck[tool]} :
                     x.report[check] =
                         Code_analyze_pr_files(x.changed_files,
                                               [x.runs EXCEPT ![tool] = r])[check]

C13_Witness ==
    \E x \in StateReports :
        /\ x.analyzer = "code"
        /\ x.runs.prettier.raises
        /\ x.changed_files = <<"src/App.tsx", "src/util.ts">>
        /\ x.report.formatting.status = "pass" /\ x.report.formatting.issues = 0
        /\ x.report.console_logs.status = "fail"
        /\ x.report.complexity.status = "warning"

\* C14: when the list of changed files cannot be obtained, the review ends
\* with an error message: no analyzer has run, and there is no report, no
\* summary and no recommendation.
C14_FailedListAbortsReview ==
    (review # None /\ ~review.files.ok) =>
        /\ review.kind = "error"
        /\ review.message \in {"Failed to get PR files",
                               "Please set GITHUB_TOKEN and GITHUB_REPO in .env file"}
        /\ DOMAIN review = {"kind", "flags", "files", "message"}

C14_Witness ==
    /\ review.kind = "error"
    /\ ~review.files.ok
    /\ review.message = "Failed to get PR files"
    /\ review.flags.security /\ review.flags.performance

\* Positions of a path in a list of changed files
PositionsOf(file, changed_files) ==
    {k \in 1..Len(changed_files) : changed_files[k] = file}

\* C15 as stated: in every report the locations of a check are in discovery
\* order: every entry carries the path of a listed file, the entries of a
\* file listed earlier come before those of a file listed later, and among
\* the entries of one file (listed once) the line numbers never decrease.
C15_LocationsInFileThenLineOrder ==
    \A x \in StateReports : \A check \in DOMAIN x.report :
        "locations" \in DOMAIN x.report[check] =>
            LET locations == x.report[check].locations
            IN  /\ \A p \in 1..Len(locations) :
                       PositionsOf(locations[p].file, x.changed_files) # {}
                /\ \A p \in 1..(Len(locations) - 1) :
                       \E a \in PositionsOf(locations[p].file, x.changed_files),
                          b \in PositionsOf(locations[p + 1].file, x.changed_files) :
                              a <= b
                /\ \A p \in 1..(Len(locations) - 1) :
                       (/\ locations[p].file = locations[p + 1].file
                        /\ Cardinality(PositionsOf(locations[p].file, x.changed_files)) = 1)
                       => locations[p].line <= locations[p + 1].line

\* An answer to the request of get_ready_tasks that makes the attempt fail
FailedRequest(response) ==
    \/ response.kind = "raises"
    \/ response.status_code # 200
    \/ "errors" \in DOMAIN response.data
    \/ "data" \notin DOMAIN response.data
    \/ "issues" \notin DOMAIN response.data.data

\* C16 as stated: when the API request fails (at every attempt),
\* get_ready_tasks returns the empty list and does not raise.
C16_FailedRequestGivesEmptyList ==
    (/\ client # None
     /\ client.op = "get_ready_tasks"
     /\ \A k \in 1..stop_after_attempt : FailedRequest(client.responses[k]))
    => /\ ~client.outcome.raised
       /\ client.outcome.value = <<>>

\* C17 as stated: update_task with a state name that is not among the
\* workflow states of the team (the states request being answered) returns
\* False and does not raise.
C17_UnknownStateReturnsFalse ==
    (/\ client # None
     /\ client.op = "update_task"
     /\ \A k \in 1..stop_after_attempt :
            /\ client.requests[k].states = WorkflowStates
            /\ \A i \in 1..Len(WorkflowStates.data.data.workflowStates.nodes) :
                   WorkflowStates.data.data.workflowStates.nodes[i].name
                       # client.state_name)
    => /\ ~client.outcome.raised
       /\ client.outcome.value = FALSE

ReportsLine(x, check, file, n) ==
    \E p \in 1..Len(x.report[check].locations) :
        /\ x.report[check].locations[p].file = file
        /\ x.report[check].locations[p].line = n

\* A line holding one of the key shapes of exposed_api_keys and no accessor
\* of the environment
ShowsApiKey(line) ==
    /\ \E i \in 1..Len(line) : line[i] \in ApiKeys
    /\ ~In("process.env", line) /\ ~In("import.meta.env", line)

C20_EnvAccessorLinesNeverReported ==
    \A x \in StateReports :
        x.analyzer = "security" =>
            \A check \in {"hardcoded_secrets", "exposed_api_keys"} :
                \A p \in 1..Len(x.report[check].locations) :
                    LET l == x.report[check].locations[p]
                    IN  ~RefersToEnv(SplitLines(Repo[l.file])[l.line])

\* C21: for a page whose headings have the given levels, heading_hierarchy
\* counts one issue when the first heading is not h1, plus one for every
\* heading whose level exceeds that of the heading before it by more than
\* one; the skipped levels are counted whether or not the first is h1.
C21_HeadingIssuesAreFirstPlusSkips ==
    (rule # None /\ rule.op = "heading_hierarchy") =>
        LET levels == rule.levels
            first == IF levels # <<>> /\ levels[1] # 1 THEN 1 ELSE 0
            skips == {k \in 2..Len(levels) : levels[k] > levels[k - 1] + 1}
        IN  /\ rule.outcome.issues = first + Cardinality(skips)
            /\ \A k \in 2..Len(levels) :
                   (k \in skips) <=>
                       \E p \in 1..Len(rule.outcome.locations) :
                           /\ rule.outcome.locations[p].line = k
                           /\ rule.outcome.locations[p].note = "skipped heading level"

C21_Witness ==
    /\ rule # None /\ rule.op = "heading_hierarchy"
    /\ rule.levels = <<2, 4, 3>>
    /\ rule.outcome.issues = 2

\* The line holding the closing brace that matches the first brace opened
\* at or after line i: the first line from i on at the end of which a brace
\* has been opened and every brace opened since line i is closed; 0 when
\* there is none.
MatchingBraceLine(lines, i) ==
    LET depth(j) == SumSeq([k \in 1..(j - i + 1) |-> BraceDelta(lines[i + k - 1])])
        opened(j) == \E k \in i..j : \E t \in 1..Len(lines[k]) : lines[k][t] \in {"{", "{{"}
    IN  FirstIn({j \in i..Len(lines) : opened(j) /\ depth(j) = 0})

\* C22 as stated: every declaration line of the file is a candidate of its
\* own; it is reported exactly when the lines from it through the line of
\* its matching closing brace number more than 50, and the reported value
\* of lines is that number.
C22_EveryDeclarationMeasuredToItsBrace ==
    (rule # None /\ rule.op = "function_size") =>
        LET lines == FileLines(SourceFile(rule.blocks))
            details == rule.outcome.details
        IN  \A i \in 1..Len(lines) :
                IsDeclaration(Strip(lines[i])) =>
                    LET end == MatchingBraceLine(lines, i)
                        size == end - i + 1
                    IN  /\ (\E d \in 1..Len(details) : details[d].start_line = i)
                               <=> (end # 0 /\ size > max_lines)
                        /\ \A d \in 1..Len(details) :
                               details[d].start_line = i => details[d].lines = size

\* A line that removes the outline
RemovesOutline(line) == In("outline-none", line) \/ In("outline: none", line)

\* C23 as stated: a line that removes the outline is flagged by
\* focus_management exactly when neither the line itself holds a focus style
\* nor one of the lines within 3 lines before or after it holds :focus.
C23_FocusStyleNearbyPreventsFlag ==
    (rule # None /\ rule.op = "focus_management") =>
        LET lines == StyleSheet(rule.kinds)
        IN  \A i \in 1..Len(lines) :
                RemovesOutline(lines[i]) =>
                    ((\E p \in 1..Len(rule.outcome.locations) :
                          rule.outcome.locations[p].line = i)
                     <=> ~(\/ In("focus:", lines[i])
                           \/ \E k \in Max(1, i - 3)..Min(Len(lines), i + 3) :
                                  In(":focus", lines[k])))

\* What attempt k of the call held by client gives if it is made
AttemptOf(c, k) ==
    IF c.op = "get_ready_tasks" THEN get_ready_tasks_attempt(c.responses[k])
    ELSE update_task_attempt(c.state_name, c.requests[k])

C25_OnlyTheRaisingRuleIsLost ==
    (rule # None /\ rule.op = "analyze_file") =>
        \A check \in DOMAIN scans[rule.analyzer][rule.file] :
            IF check = rule.failing
            THEN check \in DOMAIN rule.outcome => rule.outcome[check].issues = 0
            ELSE /\ check \in DOMAIN rule.outcome
                 /\ rule.outcome[check] = scans[rule.analyzer][rule.file][check]

\* The lines a rule of the analyzer numbers in a file
NumberedLines(analyzer, file) ==
    IF analyzer = "code" THEN IteratedLines(Repo[file]) ELSE SplitLines(Repo[file])

\* C26 as stated: every location "line n" of a report names a line of its
\* file, 1 <= n <= number of lines, and n is the line on which the text
\* that caused the finding stands: a call of eval or its like for
\* eval_usage, an array mutation for the "array mutation in loop" findings
\* of inefficient_loops.
C26_LocationsNameTheTriggeringLine ==
    \A x \in StateReports : \A check \in DOMAIN x.report :
        "locations" \in DOMAIN x.report[check] =>
            \A p \in 1..Len(x.report[check].locations) :
                LET l == x.report[check].locations[p]
                    lines == NumberedLines(x.analyzer, l.file)
                IN  /\ l.line \in 1..Len(lines)
                    /\ check = "eval_usage" =>
                           \E t \in 1..Len(lines[l.line]) :
                               lines[l.line][t] \in {"eval", "Function", "setTimeout",
                                                     "setInterval"}
                    /\ l.note = "array mutation in loop" =>
                           \E t \in 1..Len(lines[l.line]) :
                               lines[l.line][t] \in ArrayMutations

\* The attempt posted the issueUpdate mutation and it succeeded
StateUpdated(posts) ==
    \E p \in 1..Len(posts) : posts[p].request = "issueUpdate" /\ posts[p].succeeded

\* The add-comment request of the attempt failed: a transport error, a
\* status other than 200, or GraphQL errors in the answer
CommentFailed(r) ==
    \/ r.comment.kind = "raises"
    \/ r.comment.status_code # 200
    \/ "errors" \in DOMAIN r.comment.data

\* C27 as stated: an attempt of update_task whose state update succeeded
\* and whose add-comment request failed returns True, and so does the call.
C27_CommentFailureIsOnlyLogged ==
    (client # None /\ client.op = "update_task") =>
        \A k \in 1..client.outcome.attempts :
            (StateUpdated(client.posts[k]) /\ CommentFailed(client.requests[k])) =>
                /\ update_task_attempt(client.state_name, client.requests[k]) = Returned(TRUE)
                /\ client.outcome.attempts = k
                /\ ~client.outcome.raised /\ client.outcome.value = TRUE

\* C30 as stated: within one call of update_task, once an attempt has had
\* its state update succeed, no later attempt posts the state-update
\* mutation again.
C30_StateUpdateSentOnceWhenItSucceeded ==
    (client # None /\ client.op = "update_task") =>
        \A k \in 1..client.outcome.attempts :
            StateUpdated(client.posts[k]) =>
                \A later \in (k + 1)..client.outcome.attempts :
                    \A p \in 1..Len(client.posts[later]) :
                        client.posts[later][p].request # "issueUpdate"

\* The calls of the given operation made on the repository object
CallsOf(calls, op) == {p \in 1..Len(calls) : calls[p].op = op}

\* C29 as stated: within one call of create_or_update_file, create_file is
\* invoked only when the lookup of the path failed, never when the lookup
\* found the file, and at most one of update_file and create_file is
\* attempted.
C29_CreateOnlyAfterFailedLookup ==
    (client # None /\ client.op = "create_or_update_file") =>
        LET calls == client.outcome.calls
            found == client.env.init_ok /\ client.env.remote.exists /\ ~client.env.get_fails
        IN  /\ found => CallsOf(calls, "create_file") = {}
            /\ Cardinality(CallsOf(calls, "update_file") \cup CallsOf(calls, "create_file")) <= 1

\* The outer loop of _check_function_size is running or has run
Scanning == rule # None /\ rule.op = "function_size_scan"

\* The loop has left the file behind
ScanOver == Scanning /\ rule.i > Len(rule.body)

\* The lines of the file the loop runs on
ScannedLines == FileLines(SourceFile(rule.blocks))

\* The loop taken iteration by iteration finds what the rule returns
ScanAgreesWithRule ==
    ScanOver => DetailResult(rule.large_functions) = _check_function_size(SourceFile(rule.blocks))

\* C28: every iteration of the outer loop of _check_function_size moves the
\* line index forward, and past the line at which the inner scan stopped
\* when the line is a declaration (past the end of the file when the braces
\* are never closed); no line starts two reported functions; and the loop
\* ends on every file.
C28_FunctionSizeScanAdvancesAndEnds ==
    /\ [][(Scanning /\ Scanning') =>
              /\ rule'.i > rule.i
              /\ IsDeclaration(Strip(ScannedLines[rule.i]))
                     => rule'.i > FunctionEndLine(ScannedLines, rule.i)]_vars
    /\ [](Scanning =>
              \A a, b \in 1..Len(rule.large_functions) :
                  a < b => rule.large_functions[a].start_line
                               + rule.large_functions[a].lines
                           <= rule.large_functions[b].start_line)
    /\ (Scanning ~> ScanOver)

C28_Witness ==
    /\ ScanOver
    /\ rule.blocks = <<"nested", "open">>
    /\ Len(rule.large_functions) = 1
    /\ rule.large_functions[1].start_line = 1
    /\ rule.i = Len(ScannedLines) + 2

====
